---- MODULE Spec2Model ----
(***************************************************************************)
(* Model of the TCpu synthesis toolchain: the logic IR (LogicList), its    *)
(* validator, the logic optimizer passes, the logic simulator, the         *)
(* LogicBuilder life cycle and the grid placer.                            *)
(*                                                                         *)
(* A Signal is modelled by its unique_id (new_signal hands out fresh ids,  *)
(* so object identity and id coincide).  A LUT is a record                 *)
(* [output, inputs, table], an FF a record [output, input, init].  The     *)
(* entries of logic.luts / logic.ffs are distinct objects: sets of objects *)
(* in the source (luts_to_delete, loop_free_luts, ...) are modelled as     *)
(* sets of list positions.                                                 *)
(***************************************************************************)
EXTENDS Integers, Sequences, FiniteSets, TLC

VARIABLES
    logic,      \* the LogicList
    builders,   \* the LogicBuilders created on it: [open, connections_to_make]
    pre,        \* the LogicList as it was when the last operation started
    last        \* the last operation and what it returned / raised

logic_vars == <<logic, builders, pre, last>>

VARIABLES
    net,        \* Grid: the lookup tables built from the NetList
    grid,       \* Grid.grid, indexed by grid index gi (x = gi % size, y = gi \div size)
    component_to_grid_pos,
    wire_index_to_cost,
    curr_cost,
    swap        \* the last try_swap_cells call and what it returned

grid_vars == <<net, grid, component_to_grid_pos, wire_index_to_cost, curr_cost, swap>>

vars == <<logic, builders, pre, last, net, grid, component_to_grid_pos,
          wire_index_to_cost, curr_cost, swap>>

----------------------------------------------------------------------------
(* Generic helpers *)

Range(f) == {f[i] : i \in DOMAIN f}

RECURSIVE Reverse(_)
Reverse(s) == IF s = <<>> THEN <<>> ELSE Append(Reverse(Tail(s)), Head(s))

Front(s) == SubSeq(s, 1, Len(s) - 1)

Min(S) == CHOOSE m \in S : \A n \in S : m <= n
Max(S) == CHOOSE m \in S : \A n \in S : m >= n

\* the positions of s, kept when keep(i) holds, as a subsequence of s
RECURSIVE FilterIdx(_, _, _)
FilterIdx(s, keepset, i) ==
    IF i > Len(s) THEN <<>>
    ELSE (IF i \in keepset THEN <<s[i]>> ELSE <<>>) \o FilterIdx(s, keepset, i + 1)

\* Optional[bool]: None is <<>>, a value b is <<b>>
None == <<>>
Some(b) == <<b>>

----------------------------------------------------------------------------
(* synth/logic/logic_list.py *)

EmptyLogic ==
    [signals |-> <<>>, luts |-> <<>>, ffs |-> <<>>,
     external_inputs |-> {}, external_outputs |-> {},
     next_signal_id |-> 0, builder_count |-> 0, debug_names |-> <<>>]

\* new_signal(); debug_names[s + 1] is the set Signal.debug_names of the
\* signal with unique_id s
new_signal(L) ==
    [L EXCEPT !.signals = Append(@, L.next_signal_id),
              !.next_signal_id = @ + 1,
              !.debug_names = Append(@, {})]

\* new_signal(debug_name)
new_signal_named(L, debug_name) ==
    [L EXCEPT !.signals = Append(@, L.next_signal_id),
              !.next_signal_id = @ + 1,
              !.debug_names = Append(@, {debug_name})]

push_lut(L, lut) == [L EXCEPT !.luts = Append(@, lut)]

\* new_lut: the fresh output signal is the old next_signal_id
new_lut(L, inputs, table) ==
    push_lut(new_signal(L),
             [output |-> L.next_signal_id, inputs |-> inputs, table |-> table])

push_ff(L, ff) == [L EXCEPT !.ffs = Append(@, ff)]

new_ff(L, input, init) ==
    push_ff(new_signal(L),
            [output |-> L.next_signal_id, input |-> input, init |-> init])

mark_external_input(L, s) == [L EXCEPT !.external_inputs = @ \cup {s}]
mark_external_output(L, s) == [L EXCEPT !.external_outputs = @ \cup {s}]

\* the closure `replace` of replace_signal
Replace(s, old, new) == IF s = old THEN new ELSE s

\* a LUT.replace that leaves the output alone
LUT_replace_inputs(lut, old, new) ==
    [lut EXCEPT !.inputs = [j \in DOMAIN @ |-> Replace(@[j], old, new)]]

LUT_replace(lut, old, new) ==
    [lut EXCEPT !.output = Replace(@, old, new),
                !.inputs = [j \in DOMAIN @ |-> Replace(@[j], old, new)]]

FF_replace(ff, old, new) ==
    [ff EXCEPT !.input = Replace(@, old, new),
               !.output = Replace(@, old, new)]

CountSeq(s, x) == Cardinality({j \in DOMAIN s : s[j] = x})

RECURSIVE SumSeq(_)
SumSeq(s) == IF s = <<>> THEN 0 ELSE Head(s) + SumSeq(Tail(s))

\* how many times the closure `replace` met `old`
ReplaceCount(L, old) ==
      SumSeq([i \in DOMAIN L.luts |->
                (IF L.luts[i].output = old THEN 1 ELSE 0) + CountSeq(L.luts[i].inputs, old)])
    + SumSeq([i \in DOMAIN L.ffs |->
                (IF L.ffs[i].input = old THEN 1 ELSE 0) + (IF L.ffs[i].output = old THEN 1 ELSE 0)])
    + (IF old \in L.external_inputs THEN 1 ELSE 0)
    + (IF old \in L.external_outputs THEN 1 ELSE 0)

replace_signal_logic(L, old, new) ==
    [L EXCEPT !.luts = [i \in DOMAIN @ |-> LUT_replace(@[i], old, new)],
              !.ffs = [i \in DOMAIN @ |-> FF_replace(@[i], old, new)],
              !.external_inputs = {Replace(s, old, new) : s \in @},
              !.external_outputs = {Replace(s, old, new) : s \in @},
              !.debug_names[new + 1] = @ \cup L.debug_names[old + 1],
              !.signals = SelectSeq(@, LAMBDA s : s # old)]

\* replace_signal: the LogicList afterwards and the returned count
replace_signal(L, old, new) ==
    IF old = new THEN [logic |-> L, count |-> 0]
    ELSE [logic |-> replace_signal_logic(L, old, new),
          count |-> ReplaceCount(L, old)]

\* a check_finished that never raises
check_finished_never(L) == TRUE

check_finished(L) == L.builder_count = 0

\* signals_driven without the entry of the external inputs
signals_driven_components(L, s) ==
    {<<"lut", i>> : i \in {j \in DOMAIN L.luts : L.luts[j].output = s}}
    \cup {<<"ff", i>> : i \in {j \in DOMAIN L.ffs : L.ffs[j].output = s}}

\* validate: signals_driven[s], the set of drivers of s (None for an external input)
signals_driven(L, s) ==
    (IF s \in L.external_inputs THEN {<<"ext", 0>>} ELSE {})
    \cup {<<"lut", i>> : i \in {j \in DOMAIN L.luts : L.luts[j].output = s}}
    \cup {<<"ff", i>> : i \in {j \in DOMAIN L.ffs : L.ffs[j].output = s}}

driven_keys(L) ==
    L.external_inputs \cup {L.luts[i].output : i \in DOMAIN L.luts}
                      \cup {L.ffs[i].output : i \in DOMAIN L.ffs}

signals_used(L) ==
    L.external_outputs \cup UNION {Range(L.luts[i].inputs) : i \in DOMAIN L.luts}
                       \cup {L.ffs[i].input : i \in DOMAIN L.ffs}

signals_all(L) == Range(L.signals)

signals_exist(L) ==
    /\ signals_used(L) \subseteq signals_all(L)
    /\ driven_keys(L) \subseteq signals_all(L)
    /\ L.external_inputs \subseteq signals_all(L)
    /\ L.external_outputs \subseteq signals_all(L)

ids_unique(L) ==
    \A i, j \in DOMAIN L.signals : i # j => L.signals[i] # L.signals[j]

one_driver(L) ==
    \A s \in driven_keys(L) : Cardinality(signals_driven(L, s)) <= 1

\* a signal whose drivers are never followed
lut_drivers_none(L, s) == {}

\* the LUT drivers of a signal, as positions in logic.luts
lut_drivers(L, s) == {i \in DOMAIN L.luts : L.luts[i].output = s}

\* is_looped(lut) on the shared state st = [curr_loop, loop_free_luts]:
\* [found, loop] is the returned value (None when not found), the rest the state after
RECURSIVE is_looped(_, _, _)
RECURSIVE is_looped_inputs(_, _, _, _)
RECURSIVE is_looped_drivers(_, _, _)

is_looped(L, li, st) ==
    IF li \in st.loop_free_luts
    THEN [found |-> FALSE, loop |-> <<>>,
          curr_loop |-> st.curr_loop, loop_free_luts |-> st.loop_free_luts]
    ELSE IF L.luts[li].output \in Range(st.curr_loop)
    THEN [found |-> TRUE, loop |-> Reverse(st.curr_loop),
          curr_loop |-> <<>>, loop_free_luts |-> st.loop_free_luts]
    ELSE LET r == is_looped_inputs(L, li, 1,
                      [curr_loop |-> Append(st.curr_loop, L.luts[li].output),
                       loop_free_luts |-> st.loop_free_luts])
         IN IF r.found THEN r
            ELSE [found |-> FALSE, loop |-> <<>>,
                  curr_loop |-> Front(r.curr_loop),
                  loop_free_luts |-> r.loop_free_luts \cup {li}]

\* the loop over the drivers of one input (a set: taken in list order)
is_looped_drivers(L, ds, st) ==
    IF ds = {}
    THEN [found |-> FALSE, loop |-> <<>>,
          curr_loop |-> st.curr_loop, loop_free_luts |-> st.loop_free_luts]
    ELSE LET d == CHOOSE x \in ds : \A y \in ds : x <= y
             r == is_looped(L, d, st)
         IN IF r.found THEN r
            ELSE is_looped_drivers(L, ds \ {d},
                     [curr_loop |-> r.curr_loop, loop_free_luts |-> r.loop_free_luts])

\* the loop over lut.inputs, from input j on
is_looped_inputs(L, li, j, st) ==
    IF j > Len(L.luts[li].inputs)
    THEN [found |-> FALSE, loop |-> <<>>,
          curr_loop |-> st.curr_loop, loop_free_luts |-> st.loop_free_luts]
    ELSE LET r == is_looped_drivers(L, lut_drivers(L, L.luts[li].inputs[j]), st)
         IN IF r.found THEN r
            ELSE is_looped_inputs(L, li, j + 1,
                     [curr_loop |-> r.curr_loop, loop_free_luts |-> r.loop_free_luts])

\* the final loop of validate over logic.luts, from position i on;
\* looped_luts collects the signals of the loops found
RECURSIVE find_lut_loops(_, _, _, _)
find_lut_loops(L, i, st, looped_luts) ==
    IF i > Len(L.luts) THEN looped_luts
    ELSE IF i \in st.loop_free_luts THEN find_lut_loops(L, i + 1, st, looped_luts)
    ELSE LET r == is_looped(L, i, st)
         IN IF r.found
            THEN \* the error message calls is_looped(lut) a second time
                 LET r2 == is_looped(L, i, [curr_loop |-> r.curr_loop,
                                            loop_free_luts |-> r.loop_free_luts])
                 IN find_lut_loops(L, i + 1,
                        [curr_loop |-> r2.curr_loop, loop_free_luts |-> r2.loop_free_luts],
                        looped_luts \cup Range(r.loop))
            ELSE find_lut_loops(L, i + 1,
                        [curr_loop |-> r.curr_loop, loop_free_luts |-> r.loop_free_luts],
                        looped_luts)

lut_loop_free(L) ==
    find_lut_loops(L, 1, [curr_loop |-> <<>>, loop_free_luts |-> {}], {}) = {}

\* validate: "ok", or the check that raised
validate(L) ==
    IF ~check_finished(L) THEN "active_builders"
    ELSE IF ~signals_exist(L) THEN "signal_missing"
    ELSE IF ~ids_unique(L) THEN "duplicate_id"
    ELSE IF ~one_driver(L) THEN "multiple_drivers"
    ELSE IF ~lut_loop_free(L) THEN "lut_loop"
    ELSE "ok"

\* LUT.lines: the input pattern of table line i (0-based), little-endian
line_in(i, k) == [j \in 1..k |-> ((i \div (2^(j-1))) % 2) # 0]

\* a replace_consts that reads the table lines big-endian
replace_consts_big(lut, consts) ==
    LET k == Len(lut.inputs)
        kept == {i \in 1..Len(lut.table) :
                    \A j \in 1..k : consts[j] = None
                                     \/ consts[j] = Some(line_in(i - 1, k)[k + 1 - j])}
    IN [lut EXCEPT !.table = FilterIdx(lut.table, kept, 1),
                   !.inputs = FilterIdx(lut.inputs, {j \in 1..k : consts[j] = None}, 1)]

\* LUT.replace_consts; consts[j] is None or Some(value)
replace_consts(lut, consts) ==
    LET k == Len(lut.inputs)
        kept == {i \in 1..Len(lut.table) :
                    \A j \in 1..k : consts[j] = None \/ consts[j] = Some(line_in(i - 1, k)[j])}
    IN [lut EXCEPT !.table = FilterIdx(lut.table, kept, 1),
                   !.inputs = FilterIdx(lut.inputs, {j \in 1..k : consts[j] = None}, 1)]

\* LUT.operands_tuple: (*inputs, *table)
LUT_operands_tuple(lut) == lut.inputs \o lut.table

\* FF.operands_tuple
FF_operands_tuple(ff) == <<ff.input, ff.init>>

----------------------------------------------------------------------------
(* synth/flow/lattice.py *)

UNDEF == [is_overdef |-> FALSE, value |-> None]
OVERDEF == [is_overdef |-> TRUE, value |-> None]
new_def(v) == [is_overdef |-> FALSE, value |-> Some(v)]

is_undef(a) == a.value = None /\ ~a.is_overdef
is_def(a) == a.value # None
can_be(a, v) == a.is_overdef \/ (is_def(a) /\ a.value = Some(v))

\* a merge that keeps the first value that is not UNDEF
merge_first(a, b) ==
    IF is_undef(a) THEN b
    ELSE a

\* Lattice.merge reaches its final `assert False`
merge_missing(a, b) ==
    /\ ~is_undef(a) /\ ~is_undef(b)
    /\ ~(a.is_overdef \/ b.is_overdef)
    /\ ~(is_def(a) /\ is_def(b))

merge(a, b) ==
    IF is_undef(a) THEN b
    ELSE IF is_undef(b) THEN a
    ELSE IF a.is_overdef \/ b.is_overdef THEN OVERDEF
    ELSE IF a.value = b.value THEN a
    ELSE OVERDEF

----------------------------------------------------------------------------
(* synth/flow/logic_util.py *)

\* UseDef.from_logic: users[s], the LUTs and FFs reading s (ExternalOutput users are
\* skipped by every pass that reads users)
users(L, s) ==
    {<<"lut", i>> : i \in {j \in DOMAIN L.luts : s \in Range(L.luts[j].inputs)}}
    \cup {<<"ff", i>> : i \in {j \in DOMAIN L.ffs : L.ffs[j].input = s}}

\* UseDef.from_logic: defs[s]
defs(L, s) == signals_driven(L, s)

\* def_inputs that does not follow an FF to its input
def_inputs_luts(L, d) ==
    IF d[1] = "lut" THEN Range(L.luts[d[2]].inputs) ELSE {}

\* def_inputs(d): the signals a definition reads
def_inputs(L, d) ==
    IF d[1] = "ff" THEN {L.ffs[d[2]].input}
    ELSE IF d[1] = "lut" THEN Range(L.luts[d[2]].inputs)
    ELSE {}

----------------------------------------------------------------------------
(* synth/flow/logic_opt.py *)

\* every signal a lattice entry can exist for (the lattice is a defaultdict)
lattice_keys(L) == signals_all(L) \cup signals_used(L) \cup driven_keys(L)

\* const_propagation, "initialize lattice"; FF outputs are set in list order
RECURSIVE lattice_init_ffs(_, _, _)
lattice_init_ffs(L, lat, i) ==
    IF i > Len(L.ffs) THEN lat
    ELSE lattice_init_ffs(L, [lat EXCEPT ![L.ffs[i].output] = new_def(L.ffs[i].init)], i + 1)

lattice_init(L) ==
    lattice_init_ffs(L,
        [s \in lattice_keys(L) |-> IF s \in L.external_inputs THEN OVERDEF ELSE UNDEF], 1)

\* eval_lut, from table line i (1-based) on
RECURSIVE eval_lut_from(_, _, _, _)
eval_lut_from(lut, lat, i, result) ==
    IF i > Len(lut.table) THEN result
    ELSE IF \A j \in DOMAIN lut.inputs :
                can_be(lat[lut.inputs[j]], line_in(i - 1, Len(lut.inputs))[j])
         THEN LET r == merge(result, new_def(lut.table[i]))
              IN IF r.is_overdef THEN r ELSE eval_lut_from(lut, lat, i + 1, r)
         ELSE eval_lut_from(lut, lat, i + 1, result)

eval_lut(lut, lat) == eval_lut_from(lut, lat, 1, UNDEF)

\* one pop of the main loop: the component's output and its new lattice value
component_output(L, c) == IF c[1] = "ff" THEN L.ffs[c[2]].output ELSE L.luts[c[2]].output

component_eval(L, c, lat) ==
    IF c[1] = "ff" THEN lat[L.ffs[c[2]].input] ELSE eval_lut(L.luts[c[2]], lat)

\* the popped element of a set of components (set order: any; the fixed point
\* of the monotone updates does not depend on it)
pop(todo) == CHOOSE c \in todo : TRUE

\* the main loop of const_propagation; asserts |-> FALSE when an assertion fails
RECURSIVE const_prop_loop(_, _, _)
const_prop_loop(L, lat, todo) ==
    IF todo = {} THEN [lattice |-> lat, asserts |-> TRUE]
    ELSE LET c == pop(todo)
             signal == component_output(L, c)
             output_prev == lat[signal]
             output_new == merge(output_prev, component_eval(L, c, lat))
         IN IF \/ (output_prev.is_overdef /\ ~output_new.is_overdef)
               \/ (is_def(output_prev) /\ ~(is_def(output_new) \/ output_new.is_overdef))
            THEN [lattice |-> lat, asserts |-> FALSE]
            ELSE IF output_new # output_prev
            THEN const_prop_loop(L, [lat EXCEPT ![signal] = output_new],
                                 (todo \ {c}) \cup users(L, signal))
            ELSE const_prop_loop(L, lat, todo \ {c})

all_components(L) ==
    {<<"ff", i>> : i \in DOMAIN L.ffs} \cup {<<"lut", i>> : i \in DOMAIN L.luts}

const_prop_lattice(L) == const_prop_loop(L, lattice_init(L), all_components(L))

\* "apply simplifications": the LUTs that are users of a def signal
luts_updated(L, lat) ==
    {i \in DOMAIN L.luts : \E j \in DOMAIN L.luts[i].inputs : is_def(lat[L.luts[i].inputs[j]])}

\* the FFs that are users of a def signal
ffs_deleted(L, lat) == {i \in DOMAIN L.ffs : is_def(lat[L.ffs[i].input])}

lut_consts(lut, lat) ==
    [j \in DOMAIN lut.inputs |->
        IF is_def(lat[lut.inputs[j]]) THEN lat[lut.inputs[j]].value ELSE None]

\* the FF branch without the retargeting of the FF
ff_to_const_keep(L, lat, i) ==
    push_lut(L, [output |-> L.ffs[i].output, inputs |-> <<>>,
                 table |-> <<lat[L.ffs[i].input].value[1]>>])

\* the FF branch of the apply loop for the FF at position i: a constant LUT takes
\* over the FF's output, the FF is retargeted to a new "dummy" signal
ff_to_const(L, lat, i) ==
    LET const_lut == [output |-> L.ffs[i].output, inputs |-> <<>>,
                      table |-> <<lat[L.ffs[i].input].value[1]>>]
        L1 == push_lut(L, const_lut)
        L2 == new_signal(L1)
    IN [L2 EXCEPT !.ffs[i].output = L1.next_signal_id]

RECURSIVE apply_ffs(_, _, _)
apply_ffs(L, lat, order) ==
    IF order = <<>> THEN L
    ELSE apply_ffs(ff_to_const(L, lat, Head(order)), lat, Tail(order))

\* the sequences that list every element of S once
RECURSIVE Perms(_)
Perms(S) ==
    IF S = {} THEN {<<>>}
    ELSE UNION {{<<x>> \o p : p \in Perms(S \ {x})} : x \in S}

\* the keys of the defaultdict `lattice` when the main loop has ended: the
\* external inputs, the FF outputs, what the last evaluation of each component
\* read (all() stops at the first input that cannot take the line's value, so
\* an input behind an UNDEF input is never read) and each component's output
lattice_present(L, lat) ==
    L.external_inputs
    \cup {L.ffs[i].output : i \in DOMAIN L.ffs}
    \cup {L.ffs[i].input : i \in DOMAIN L.ffs}
    \cup {L.luts[i].output : i \in DOMAIN L.luts}
    \cup UNION {{L.luts[i].inputs[j] : j \in {n \in DOMAIN L.luts[i].inputs :
                        \A m \in 1..(n - 1) : ~is_undef(lat[L.luts[i].inputs[m]])}}
                : i \in DOMAIN L.luts}

\* the LUTs for which the apply loop reads lattice[input] of a missing key: the
\* defaultdict grows while lattice.items() is iterated
luts_missing(L, lat) ==
    LET present == lattice_present(L, lat)
    IN {i \in DOMAIN L.luts :
          /\ \E j \in DOMAIN L.luts[i].inputs : is_def(lat[L.luts[i].inputs[j]])
          /\ \E j \in DOMAIN L.luts[i].inputs : L.luts[i].inputs[j] \notin present}

def_signals(lat) == {s \in DOMAIN lat : is_def(lat[s])}

\* the def signals whose turn in the apply loop makes the dict grow
abort_signals(L, lat) ==
    LET missing == luts_missing(L, lat)
    IN {s \in def_signals(lat) : \E i \in missing : s \in Range(L.luts[i].inputs)}

\* const_propagation, "apply simplifications", for the lattice `lat`; `order`
\* is the order in which the iteration over lattice.items() and users[signal]
\* (sets) meets the FFs, `met` the def signals whose turn comes.  When the dict
\* grows during the iteration, the next step of the iteration raises
\* RuntimeError ("dictionary changed size during iteration") and the signals
\* behind are not met.
const_propagation_apply(L, lat, order, met) ==
    LET upd == {i \in DOMAIN L.luts :
                   \E j \in DOMAIN L.luts[i].inputs :
                       L.luts[i].inputs[j] \in met /\ is_def(lat[L.luts[i].inputs[j]])}
        L1 == [L EXCEPT !.luts = [i \in DOMAIN @ |->
                    IF i \in upd THEN replace_consts(@[i], lut_consts(@[i], lat)) ELSE @[i]]]
        ffs == SelectSeq(order, LAMBDA i : L.ffs[i].input \in met)
        aborted == abort_signals(L, lat) # {}
    IN [logic |-> apply_ffs(L1, lat, ffs),
        changed |-> ~aborted /\ (upd # {} \/ ffs # <<>>),
        raised |-> IF aborted THEN "RuntimeError" ELSE "ok"]

\* const_propagation
const_propagation(L, order, met) ==
    const_propagation_apply(L, const_prop_lattice(L).lattice, order, met)

\* the sets of def signals the apply loop can meet: all of them, or, when the
\* dict grows, one signal that makes it grow and any signals that do not
const_prop_mets(L) ==
    LET lat == const_prop_lattice(L).lattice
        stop == abort_signals(L, lat)
    IN IF stop = {} THEN {def_signals(lat)}
       ELSE {P \cup {t} : P \in SUBSET (def_signals(lat) \ stop), t \in stop}

const_prop_orders(L) == Perms(ffs_deleted(L, const_prop_lattice(L).lattice))

\* remove_dead, "collect live"
RECURSIVE collect_live(_, _, _)
collect_live(L, live, todo) ==
    IF todo = {} THEN live
    ELSE LET signal == CHOOSE x \in todo : TRUE
         IN IF signal \in live THEN collect_live(L, live, todo \ {signal})
            ELSE collect_live(L, live \cup {signal},
                     (todo \ {signal}) \cup UNION {def_inputs(L, d) : d \in defs(L, signal)})

live_signals(L) == collect_live(L, {}, L.external_inputs \cup L.external_outputs)

component_count(L) == Len(L.luts) + Len(L.ffs) + Len(L.signals)

remove_dead_logic(L) ==
    LET live == live_signals(L)
    IN [L EXCEPT !.ffs = SelectSeq(@, LAMBDA ff : ff.output \in live),
                 !.luts = SelectSeq(@, LAMBDA lut : lut.output \in live),
                 !.signals = SelectSeq(@, LAMBDA signal : signal \in live)]

remove_dead(L) ==
    [logic |-> remove_dead_logic(L),
     changed |-> component_count(remove_dead_logic(L)) < component_count(L)]

\* a dict as a sequence of <<key, position>>
dict_has(d, key) == \E n \in DOMAIN d : d[n][1] = key
dict_get(d, key) == d[CHOOSE n \in DOMAIN d : d[n][1] = key][2]

\* deduplicate, the loop over logic.ffs from position i on;
\* st = [logic, dict, to_delete, replaced]
RECURSIVE dedup_ffs(_, _)
dedup_ffs(st, i) ==
    IF i > Len(st.logic.ffs) THEN st
    ELSE LET key == FF_operands_tuple(st.logic.ffs[i])
         IN IF ~dict_has(st.dict, key)
            THEN dedup_ffs([st EXCEPT !.dict = Append(@, <<key, i>>)], i + 1)
            ELSE LET r == replace_signal(st.logic, st.logic.ffs[i].output,
                                         st.logic.ffs[dict_get(st.dict, key)].output)
                 IN dedup_ffs([st EXCEPT !.logic = r.logic,
                                         !.replaced = @ + r.count,
                                         !.to_delete = @ \cup {i}], i + 1)

RECURSIVE dedup_luts(_, _)
dedup_luts(st, i) ==
    IF i > Len(st.logic.luts) THEN st
    ELSE LET key == LUT_operands_tuple(st.logic.luts[i])
         IN IF ~dict_has(st.dict, key)
            THEN dedup_luts([st EXCEPT !.dict = Append(@, <<key, i>>)], i + 1)
            ELSE LET r == replace_signal(st.logic, st.logic.luts[i].output,
                                         st.logic.luts[dict_get(st.dict, key)].output)
                 IN dedup_luts([st EXCEPT !.logic = r.logic,
                                          !.replaced = @ + r.count,
                                          !.to_delete = @ \cup {i}], i + 1)

deduplicate(L) ==
    LET f == dedup_ffs([logic |-> L, dict |-> <<>>, to_delete |-> {}, replaced |-> 0], 1)
        l == dedup_luts([logic |-> f.logic, dict |-> <<>>, to_delete |-> {},
                         replaced |-> f.replaced], 1)
    IN [logic |-> [l.logic EXCEPT
                     !.ffs = FilterIdx(@, DOMAIN @ \ f.to_delete, 1),
                     !.luts = FilterIdx(@, DOMAIN @ \ l.to_delete, 1)],
        changed |-> l.replaced > 0]

\* a simplify loop that stops after the first buffer it merges
RECURSIVE simplify_luts_first(_, _)
simplify_luts_first(st, i) ==
    IF i > Len(st.logic.luts) THEN st
    ELSE IF st.logic.luts[i].table = <<FALSE, TRUE>>
    THEN [logic |-> replace_signal(st.logic, st.logic.luts[i].output,
                                   st.logic.luts[i].inputs[1]).logic,
          to_remove |-> st.to_remove \cup {i}]
    ELSE simplify_luts_first(st, i + 1)

\* simplify, the loop over logic.luts from position i on
RECURSIVE simplify_luts(_, _)
simplify_luts(st, i) ==
    IF i > Len(st.logic.luts) THEN st
    ELSE IF st.logic.luts[i].table = <<FALSE, TRUE>>
    THEN simplify_luts(
            [logic |-> replace_signal(st.logic, st.logic.luts[i].output,
                                      st.logic.luts[i].inputs[1]).logic,
             to_remove |-> st.to_remove \cup {i}], i + 1)
    ELSE simplify_luts(st, i + 1)

simplify(L) ==
    LET r == simplify_luts([logic |-> L, to_remove |-> {}], 1)
    IN [logic |-> [r.logic EXCEPT !.luts = FilterIdx(@, DOMAIN @ \ r.to_remove, 1)],
        changed |-> r.to_remove # {}]

\* the order const_propagation meets the FFs in, inside optimize_logic:
\* ascending or descending list order
RECURSIVE SortedSeq(_)
SortedSeq(S) ==
    IF S = {} THEN <<>>
    ELSE LET m == CHOOSE x \in S : \A y \in S : x <= y IN <<m>> \o SortedSeq(S \ {m})

ff_order(L, rev) ==
    LET asc == SortedSeq(ffs_deleted(L, const_prop_lattice(L).lattice))
    IN IF rev THEN Reverse(asc) ELSE asc

\* the def signals const_propagation meets inside optimize_logic, in ascending
\* or descending order of the signals up to the first that makes the dict grow
met_order(L, lat, rev) ==
    LET stop == abort_signals(L, lat)
    IN IF stop = {} THEN def_signals(lat)
       ELSE IF rev THEN {s \in def_signals(lat) : s >= Max(stop)}
       ELSE {s \in def_signals(lat) : s <= Min(stop)}

\* the body of optimize_logic's loop, repeated until no pass reports a change
\* or const_propagation raises
RECURSIVE optimize_loop(_, _)
optimize_loop(L, rev) ==
    LET lat == const_prop_lattice(L).lattice
        a == const_propagation_apply(L, lat, ff_order(L, rev), met_order(L, lat, rev))
        b == remove_dead(a.logic)
        c == deduplicate(b.logic)
        d == simplify(c.logic)
    IN IF a.raised # "ok" THEN [logic |-> a.logic, raised |-> a.raised]
       ELSE IF a.changed \/ b.changed \/ c.changed \/ d.changed
       THEN optimize_loop(d.logic, rev)
       ELSE [logic |-> d.logic, raised |-> "ok"]

\* optimize_logic: raises when a builder is still active
optimize_logic(L, rev) ==
    IF ~check_finished(L) THEN [logic |-> L, raised |-> "active_builders"]
    ELSE optimize_loop(L, rev)

----------------------------------------------------------------------------
(* synth/flow/logic_sim.py *)

\* LUT.eval(values) is called by logic_sim but defined nowhere in the sources;
\* modelled from the data model: the table entry at the little-endian index of
\* the input values, the unknown value when an input is unknown
RECURSIVE table_index(_)
table_index(values) ==
    IF values = <<>> THEN 0
    ELSE (IF Head(values)[1] THEN 1 ELSE 0) + 2 * table_index(Tail(values))

LUT_eval(lut, values) ==
    IF \E j \in DOMAIN values : values[j] = None THEN None
    ELSE Some(lut.table[table_index(values) + 1])

\* dict assignment d[k] = v on a dict modelled as a function
dict_set(d, k, v) == (k :> v) @@ d

\* the nested function eval(state, signal): [value, state]
RECURSIVE sim_eval(_, _, _)
RECURSIVE sim_eval_inputs(_, _, _, _)

sim_eval(L, state, signal) ==
    IF signal \in DOMAIN state THEN [value |-> state[signal], state |-> state]
    ELSE LET ds == lut_drivers(L, signal)
         IN IF ds = {} THEN [value |-> None, state |-> state]
            ELSE LET d == CHOOSE x \in ds : TRUE
                     ins == sim_eval_inputs(L, state, L.luts[d].inputs, <<>>)
                     result == LUT_eval(L.luts[d], ins.values)
                 IN [value |-> result, state |-> dict_set(ins.state, signal, result)]

sim_eval_inputs(L, state, inputs, acc) ==
    IF inputs = <<>> THEN [values |-> acc, state |-> state]
    ELSE LET r == sim_eval(L, state, Head(inputs))
         IN sim_eval_inputs(L, r.state, Tail(inputs), Append(acc, r.value))

\* prev = {ff.input: ff.init for ff in logic.ffs}: a later FF overwrites an earlier key
RECURSIVE sim_prev_init(_, _, _)
sim_prev_init(L, prev, i) ==
    IF i > Len(L.ffs) THEN prev
    ELSE sim_prev_init(L, dict_set(prev, L.ffs[i].input, Some(L.ffs[i].init)), i + 1)

\* for ff in logic.ffs: curr[ff.output] = prev[ff.input]; ok |-> FALSE is a KeyError
RECURSIVE sim_step_ffs(_, _, _, _)
sim_step_ffs(L, prev, curr, i) ==
    IF i > Len(L.ffs) THEN [ok |-> TRUE, curr |-> curr]
    ELSE IF L.ffs[i].input \notin DOMAIN prev THEN [ok |-> FALSE, curr |-> curr]
    ELSE sim_step_ffs(L, prev, dict_set(curr, L.ffs[i].output, prev[L.ffs[i].input]), i + 1)

\* for lut in logic.luts: curr[lut.output] = eval(curr, lut.output), for the
\* LUTs at positions lo..hi in list order.  The range is halved and the dict
\* of the first half is computed (DOMAIN left) before the second half is
\* entered, which keeps the evaluation shallow on long lists.
RECURSIVE sim_step_luts_range(_, _, _, _)
sim_step_luts_range(L, curr, lo, hi) ==
    IF lo > hi THEN curr
    ELSE IF lo = hi
    THEN LET r == sim_eval(L, curr, L.luts[lo].output)
         IN dict_set(r.state, L.luts[lo].output, r.value)
    ELSE LET mid == (lo + hi) \div 2
             left == sim_step_luts_range(L, curr, lo, mid)
         IN IF DOMAIN left = {} THEN sim_step_luts_range(L, <<>>, mid + 1, hi)
            ELSE sim_step_luts_range(L, left, mid + 1, hi)

\* the loop over logic.luts from position i on
sim_step_luts(L, curr, i) == sim_step_luts_range(L, curr, i, Len(L.luts))

\* the loop over the steps: [raised, signal_history]
RECURSIVE sim_steps(_, _, _, _)
sim_steps(L, prev, n, history) ==
    IF n = 0 THEN [raised |-> "ok", signal_history |-> history]
    ELSE LET ext == [x \in L.external_inputs |-> Some(FALSE)]
             f == sim_step_ffs(L, prev, ext, 1)
         IN IF ~f.ok THEN [raised |-> "KeyError", signal_history |-> history]
            ELSE LET curr == sim_step_luts(L, f.curr, 1)
                 IN sim_steps(L, curr, n - 1, Append(history, curr))

logic_sim(L, steps) ==
    IF validate(L) # "ok" THEN [raised |-> validate(L), signal_history |-> <<>>]
    ELSE sim_steps(L, sim_prev_init(L, <<>>, 1), steps, <<>>)

\* History.outputs() read against the external outputs `outs`;
\* raised is "KeyError" when a step has no entry for an output
History_outputs(h, outs) ==
    IF \E t \in DOMAIN h : ~(outs \subseteq DOMAIN h[t])
    THEN [raised |-> "KeyError", outputs |-> <<>>]
    ELSE [raised |-> "ok", outputs |-> [t \in DOMAIN h |-> [s \in outs |-> h[t][s]]]]

----------------------------------------------------------------------------
(* synth/logic/builder.py *)

\* LogicBuilder.__init__: const_zero and const_one are created, the LogicList
\* counts one more active builder
builder_init(L) ==
    [new_lut(new_lut(L, <<>>, <<FALSE>>), <<>>, <<TRUE>>) EXCEPT !.builder_count = @ + 1]

\* LogicBuilder.finish, the loop over connections_to_make
RECURSIVE make_connections(_, _)
make_connections(L, conns) ==
    IF conns = <<>> THEN L
    ELSE make_connections(replace_signal(L, Head(conns)[1], Head(conns)[2]).logic, Tail(conns))

builder_finish(L, conns) ==
    [make_connections(L, conns) EXCEPT !.builder_count = @ - 1]

\* the truth tables of gate_not, gate_and, gate_or, gate_xor over n signals
RECURSIVE bit_count(_)
bit_count(i) == IF i = 0 THEN 0 ELSE (i % 2) + bit_count(i \div 2)

gate_not_table == <<TRUE, FALSE>>
gate_and_table(n) == [i \in 1..(2^n) |-> i = 2^n]
gate_or_table(n) == [i \in 1..(2^n) |-> i # 1]
gate_xor_table(n) == [i \in 1..(2^n) |-> bit_count(i - 1) % 2 = 1]

----------------------------------------------------------------------------
(* The operations on a LogicList as actions.  `last` records the operation  *)
(* and its outcome: raised is "ok" or the error, changed the returned flag. *)

Done(op, raised, changed) == [op |-> op, raised |-> raised, changed |-> changed]

\* construction stops once an optimizer pass has run on the LogicList
Building == last.op \in {"build", "finish", "validate"}

LogicIdle ==
    /\ logic = EmptyLogic /\ builders = <<>> /\ pre = EmptyLogic
    /\ last = Done("build", "ok", FALSE)

GridIdle ==
    /\ net = <<>> /\ grid = <<>> /\ component_to_grid_pos = <<>>
    /\ wire_index_to_cost = <<>> /\ curr_cost = 0
    /\ swap = [op |-> "none", temp |-> 0, empty |-> FALSE, ret |-> FALSE,
               undone |-> FALSE]

Built(L) ==
    /\ logic' = L
    /\ pre' = EmptyLogic
    /\ last' = Done("build", "ok", FALSE)

\* LogicList.new_signal
NewSignal ==
    /\ Building
    /\ Built(new_signal(logic))
    /\ UNCHANGED builders

\* LogicList.push_lut(LUT(output, inputs, table))
PushLut(output, inputs, table) ==
    /\ Building
    /\ Built(push_lut(logic, [output |-> output, inputs |-> inputs, table |-> table]))
    /\ UNCHANGED builders

\* LogicList.new_lut(inputs, table)
NewLut(inputs, table) ==
    /\ Building
    /\ Built(new_lut(logic, inputs, table))
    /\ UNCHANGED builders

\* LogicList.push_ff(FF(output, input, init))
PushFF(output, input, init) ==
    /\ Building
    /\ Built(push_ff(logic, [output |-> output, input |-> input, init |-> init]))
    /\ UNCHANGED builders

\* LogicList.new_ff(input, init)
NewFF(input, init) ==
    /\ Building
    /\ Built(new_ff(logic, input, init))
    /\ UNCHANGED builders

MarkExternalInput(s) ==
    /\ Building
    /\ s \notin logic.external_inputs
    /\ Built(mark_external_input(logic, s))
    /\ UNCHANGED builders

MarkExternalOutput(s) ==
    /\ Building
    /\ s \notin logic.external_outputs
    /\ Built(mark_external_output(logic, s))
    /\ UNCHANGED builders

\* LogicBuilder(logic)
NewBuilder ==
    /\ Building
    /\ Built(builder_init(logic))
    /\ builders' = Append(builders, [open |-> TRUE, connections_to_make |-> <<>>])

\* a %= b on two Bits of builder n (BuilderValue.__imod__)
Connect(n, a, b) ==
    /\ Building
    /\ builders[n].open
    /\ builders' = [builders EXCEPT ![n].connections_to_make = Append(@, <<a, b>>)]
    /\ Built(logic)

\* LogicBuilder.finish()
Finish(n) ==
    /\ Building
    /\ builders[n].open
    /\ logic' = builder_finish(logic, builders[n].connections_to_make)
    /\ builders' = [builders EXCEPT ![n] = [open |-> FALSE, connections_to_make |-> <<>>]]
    /\ pre' = logic
    /\ last' = [op |-> "finish", raised |-> "ok", changed |-> FALSE,
                connections_to_make |-> builders[n].connections_to_make]

\* LogicList.validate()
Validate ==
    /\ pre' = logic
    /\ last' = Done("validate", validate(logic), FALSE)
    /\ UNCHANGED <<logic, builders>>

\* optimize_logic(logic)
OptimizeLogic(rev) ==
    /\ pre' = logic
    /\ LET r == optimize_logic(logic, rev)
       IN logic' = r.logic /\ last' = Done("optimize_logic", r.raised, FALSE)
    /\ UNCHANGED builders

ConstPropagation(order, met) ==
    /\ pre' = logic
    /\ LET r == const_propagation(logic, order, met)
       IN logic' = r.logic /\ last' = Done("const_propagation", r.raised, r.changed)
    /\ UNCHANGED builders

RemoveDead ==
    /\ pre' = logic
    /\ LET r == remove_dead(logic)
       IN logic' = r.logic /\ last' = Done("remove_dead", "ok", r.changed)
    /\ UNCHANGED builders

Deduplicate ==
    /\ pre' = logic
    /\ LET r == deduplicate(logic)
       IN logic' = r.logic /\ last' = Done("deduplicate", "ok", r.changed)
    /\ UNCHANGED builders

Simplify ==
    /\ pre' = logic
    /\ LET r == simplify(logic)
       IN logic' = r.logic /\ last' = Done("simplify", "ok", r.changed)
    /\ UNCHANGED builders

----------------------------------------------------------------------------
(* Bounds of the explored designs *)

\* signals created + LUTs + FFs + external marks + staged connections
RECURSIVE staged(_)
staged(bs) == IF bs = <<>> THEN 0 ELSE Len(Head(bs).connections_to_make) + staged(Tail(bs))

Size == logic.next_signal_id + Len(logic.luts) + Len(logic.ffs)
        + Cardinality(logic.external_inputs) + Cardinality(logic.external_outputs)
        + staged(builders)

Sigs == Range(logic.signals)

\* input lists of at most two signals
InputLists == {<<>>} \cup {<<a>> : a \in Sigs} \cup {<<a, b>> : a, b \in Sigs}

\* truth tables tried for an input list: constants, NOT and the buffer, AND
TablesFor(inputs) ==
    IF Len(inputs) = 0 THEN {<<FALSE>>, <<TRUE>>}
    ELSE IF Len(inputs) = 1 THEN {gate_not_table, <<FALSE, TRUE>>}
    ELSE {gate_and_table(2)}

----------------------------------------------------------------------------
(* Spec: the life cycle of LogicBuilders on one LogicList *)

MaxSize == 8
MaxBuilders == 2

OpenBuilders == {n \in DOMAIN builders : builders[n].open}

Init == LogicIdle /\ GridIdle

\* build = LogicBuilder(logic)
BuilderNew ==
    /\ Len(builders) < MaxBuilders
    /\ Size + 4 <= MaxSize
    /\ NewBuilder
    /\ UNCHANGED grid_vars

CanBuild == OpenBuilders # {} /\ Size < MaxSize

\* build.new_bit(name)
BuilderNewBit == CanBuild /\ NewSignal /\ UNCHANGED grid_vars

\* ~a
BuilderGateNot ==
    /\ CanBuild
    /\ \E a \in Sigs : NewLut(<<a>>, gate_not_table)
    /\ UNCHANGED grid_vars

\* a.delay()
BuilderDelay ==
    /\ CanBuild
    /\ \E a \in Sigs : NewFF(a, FALSE)
    /\ UNCHANGED grid_vars

BuilderMarkInput ==
    /\ CanBuild
    /\ \E a \in Sigs : MarkExternalInput(a)
    /\ UNCHANGED grid_vars

BuilderMarkOutput ==
    /\ CanBuild
    /\ \E a \in Sigs : MarkExternalOutput(a)
    /\ UNCHANGED grid_vars

\* a %= b
BuilderConnect ==
    /\ CanBuild
    /\ \E n \in OpenBuilders : \E a, b \in Sigs : Connect(n, a, b)
    /\ UNCHANGED grid_vars

\* build.finish()
BuilderFinish ==
    /\ \E n \in OpenBuilders : Finish(n)
    /\ UNCHANGED grid_vars

\* logic.validate(), at any time
DoValidate == Validate /\ UNCHANGED grid_vars

\* optimize_logic(logic), at any time before another pass has run
DoOptimize ==
    /\ Building
    /\ \E rev \in BOOLEAN : OptimizeLogic(rev)
    /\ UNCHANGED grid_vars

Next ==
    \/ BuilderNew
    \/ BuilderNewBit
    \/ BuilderGateNot
    \/ BuilderDelay
    \/ BuilderMarkInput
    \/ BuilderMarkOutput
    \/ BuilderConnect
    \/ BuilderFinish
    \/ DoValidate
    \/ DoOptimize

Spec == Init /\ [][Next]_vars

\* the LogicList as validate sees it once no builder is active any more
all_finished(L) == [L EXCEPT !.builder_count = 0]

\* C4: after LogicBuilder.finish() has processed its staged connections on a
\* LogicList that satisfied the invariants of the data model before, the
\* LogicList satisfies them still: validate() succeeds.
C4_FinishKeepsValid ==
    (last.op = "finish" /\ validate(all_finished(pre)) = "ok")
        => validate(all_finished(logic)) = "ok"

\* C7: with a builder still active, validate() and optimize_logic() raise on
\* check_finished and leave the LogicList as it was; with every builder
\* finished they do not fail on that check.
C7_FailFast ==
    last.op \in {"validate", "optimize_logic"} =>
        /\ pre.builder_count # 0 => (last.raised = "active_builders" /\ logic = pre)
        /\ pre.builder_count = 0 => last.raised # "active_builders"

\* optimize_logic was called with one of two builders still active, on a
\* LogicList its passes would have changed
C7_Witness ==
    /\ last.op = "optimize_logic"
    /\ Len(builders) = 2
    /\ pre.builder_count = 1
    /\ optimize_loop(pre, FALSE).logic # pre
    /\ last.raised = "active_builders"

----------------------------------------------------------------------------
(* SpecValidate: validate() on LogicLists put together through the raw     *)
(* LogicList interface, which checks nothing: any signal may be given as   *)
(* the output or an input of a pushed LUT or FF.                           *)

MaxRawSize == 5

\* validate looks at the structure only: one table per number of inputs
RawTable(inputs) ==
    IF Len(inputs) = 0 THEN <<FALSE>>
    ELSE IF Len(inputs) = 1 THEN gate_not_table ELSE gate_and_table(2)

CanPush == Size < MaxRawSize

RawNewSignal == CanPush /\ NewSignal /\ UNCHANGED grid_vars

RawPushLut ==
    /\ CanPush
    /\ \E output \in Sigs : \E inputs \in InputLists :
          PushLut(output, inputs, RawTable(inputs))
    /\ UNCHANGED grid_vars

RawPushFF ==
    /\ CanPush
    /\ \E output, input \in Sigs : PushFF(output, input, FALSE)
    /\ UNCHANGED grid_vars

RawMarkInput ==
    /\ CanPush
    /\ \E a \in Sigs : MarkExternalInput(a)
    /\ UNCHANGED grid_vars

RawMarkOutput ==
    /\ CanPush
    /\ \E a \in Sigs : MarkExternalOutput(a)
    /\ UNCHANGED grid_vars

NextValidate ==
    \/ RawNewSignal
    \/ RawPushLut
    \/ RawPushFF
    \/ RawMarkInput
    \/ RawMarkOutput
    \/ DoValidate

SpecValidate == Init /\ [][NextValidate]_vars

\* LUT i drives an input of LUT j
lut_edge(L, i, j) ==
    \E k \in DOMAIN L.luts[j].inputs : L.luts[j].inputs[k] = L.luts[i].output

\* the LUTs reachable from the LUTs in S along lut_edge
RECURSIVE lut_reach(_, _)
lut_reach(L, S) ==
    LET T == S \cup {j \in DOMAIN L.luts : \E i \in S : lut_edge(L, i, j)}
    IN IF T = S THEN S ELSE lut_reach(L, T)

has_lut_cycle(L) ==
    \E i \in DOMAIN L.luts :
        i \in lut_reach(L, {j \in DOMAIN L.luts : lut_edge(L, i, j)})

\* the number of drivers of s: LUT outputs, FF outputs, the external-input mark
driver_count(L, s) ==
      Cardinality({i \in DOMAIN L.luts : L.luts[i].output = s})
    + Cardinality({i \in DOMAIN L.ffs : L.ffs[i].output = s})
    + (IF s \in L.external_inputs THEN 1 ELSE 0)

multi_driven(L) == \E s \in driven_keys(L) : driver_count(L, s) >= 2

\* C5, as stated: validate() raises exactly when the graph of LUTs, with an
\* edge from the LUT driving an input to the LUT reading it, has a cycle.
C5_RaisesIffLutCycle ==
    last.op = "validate" => (last.raised # "ok" <=> has_lut_cycle(pre))

\* C5: validate() raises whenever the graph of LUTs, with an edge from the
\* LUT driving an input to the LUT reading it, has a cycle (a LUT reading its
\* own output included); it raises the loop error only when there is such a
\* cycle; a list that passes the other checks and has no such cycle, loops
\* through FFs or not, is accepted.
C5_LutLoops ==
    last.op = "validate" =>
        /\ has_lut_cycle(pre) => last.raised # "ok"
        /\ last.raised = "lut_loop" => has_lut_cycle(pre)
        /\ (~has_lut_cycle(pre) /\ signals_exist(pre) /\ ~multi_driven(pre))
               => last.raised = "ok"

\* validate() raised the loop error on a cycle of two or more LUTs
C5_Witness ==
    /\ last.op = "validate"
    /\ last.raised = "lut_loop"
    /\ \A i \in DOMAIN pre.luts : ~lut_edge(pre, i, i)

\* C6: validate() fails when a signal has two drivers among LUT outputs, FF
\* outputs and the external-input mark, on the driver check when the signals
\* exist; it does not fail on the driver check when no signal has two.
C6_DriverCheck ==
    last.op = "validate" =>
        /\ multi_driven(pre) => last.raised # "ok"
        /\ (multi_driven(pre) /\ signals_exist(pre)) => last.raised = "multiple_drivers"
        /\ ~multi_driven(pre) => last.raised # "multiple_drivers"

\* validate() raised on a signal that is an external input and an FF output
C6_Witness ==
    /\ last.op = "validate"
    /\ last.raised = "multiple_drivers"
    /\ \E i \in DOMAIN pre.ffs : pre.ffs[i].output \in pre.external_inputs
    /\ \A s \in driven_keys(pre) : driver_count(pre, s) <= 2

----------------------------------------------------------------------------
(* SpecPasses: the optimization passes and optimize_logic on the valid     *)
(* LogicLists, put together through the raw interface while validate()     *)
(* accepts them.                                                           *)

MaxPassSize == 5

Valid(L) == validate(L) = "ok"

\* the list grows to L: within the size `max`, and validate() accepts L
Grows(L, max) == Building /\ Size < max /\ Valid(L)

ValidNewSignal(max) ==
    /\ Grows(new_signal(logic), max)
    /\ NewSignal
    /\ UNCHANGED grid_vars

ValidPushLut(max) ==
    /\ \E output \in Sigs : \E inputs \in InputLists : \E table \in TablesFor(inputs) :
          /\ Grows(push_lut(logic, [output |-> output, inputs |-> inputs, table |-> table]), max)
          /\ PushLut(output, inputs, table)
    /\ UNCHANGED grid_vars

ValidPushFF(max) ==
    /\ \E output, input \in Sigs : \E init \in BOOLEAN :
          /\ Grows(push_ff(logic, [output |-> output, input |-> input, init |-> init]), max)
          /\ PushFF(output, input, init)
    /\ UNCHANGED grid_vars

ValidMarkInput(max) ==
    /\ \E a \in Sigs : Grows(mark_external_input(logic, a), max) /\ MarkExternalInput(a)
    /\ UNCHANGED grid_vars

ValidMarkOutput(max) ==
    /\ \E a \in Sigs : Grows(mark_external_output(logic, a), max) /\ MarkExternalOutput(a)
    /\ UNCHANGED grid_vars

PassConstPropagation ==
    /\ Building
    /\ \E order \in const_prop_orders(logic) : \E met \in const_prop_mets(logic) :
          ConstPropagation(order, met)
    /\ UNCHANGED grid_vars

PassRemoveDead == Building /\ RemoveDead /\ UNCHANGED grid_vars

PassDeduplicate == Building /\ Deduplicate /\ UNCHANGED grid_vars

\* deduplicate(logic) called again right after deduplicate(logic)
PassDeduplicateAgain ==
    /\ last.op = "deduplicate"
    /\ pre' = logic
    /\ LET r == deduplicate(logic)
       IN logic' = r.logic /\ last' = Done("deduplicate_again", "ok", r.changed)
    /\ UNCHANGED builders
    /\ UNCHANGED grid_vars

PassSimplify == Building /\ Simplify /\ UNCHANGED grid_vars

NextPasses ==
    \/ ValidNewSignal(MaxPassSize)
    \/ ValidPushLut(MaxPassSize)
    \/ ValidPushFF(MaxPassSize)
    \/ ValidMarkInput(MaxPassSize)
    \/ ValidMarkOutput(MaxPassSize)
    \/ PassConstPropagation
    \/ PassRemoveDead
    \/ PassDeduplicate
    \/ PassDeduplicateAgain
    \/ PassSimplify
    \/ DoOptimize

SpecPasses == Init /\ [][NextPasses]_vars

\* SpecDedup: deduplicate, once and twice, on larger valid LogicLists
MaxDedupSize == 6

NextDedup ==
    \/ ValidNewSignal(MaxDedupSize)
    \/ ValidPushLut(MaxDedupSize)
    \/ ValidPushFF(MaxDedupSize)
    \/ ValidMarkInput(MaxDedupSize)
    \/ ValidMarkOutput(MaxDedupSize)
    \/ PassDeduplicate
    \/ PassDeduplicateAgain

SpecDedup == Init /\ [][NextDedup]_vars

PassOps == {"const_propagation", "remove_dead", "deduplicate", "deduplicate_again", "simplify"}

\* the simulated steps compared
MaxSteps == 3

\* logic_sim(L, steps).outputs(), read against the external outputs `outs`
sim_outputs(L, steps, outs) ==
    LET h == logic_sim(L, steps)
    IN IF h.raised # "ok" THEN [raised |-> h.raised, outputs |-> <<>>]
       ELSE History_outputs(h.signal_history, outs)

\* C1: for a valid LogicList and every step count, the per-step values of the
\* external outputs that logic_sim produces before optimize_logic equal those
\* it produces after optimize_logic.
C1_SimEquivalent ==
    (last.op = "optimize_logic" /\ last.raised = "ok" /\ Valid(pre)) =>
        \A steps \in 0..MaxSteps :
            sim_outputs(pre, steps, logic.external_outputs).raised = "ok" =>
                sim_outputs(logic, steps, logic.external_outputs)
                    = sim_outputs(pre, steps, logic.external_outputs)

\* C2: a LogicList that validate() accepts is accepted still after one pass
\* (const_propagation, remove_dead, deduplicate, simplify) has run on it.
C2_PassesKeepValid ==
    (last.op \in PassOps /\ Valid(pre)) => Valid(logic)

\* const_propagation replaced an FF by a constant LUT and took an input off
\* a LUT
C2_Witness ==
    /\ last.op = "const_propagation"
    /\ Valid(pre)
    /\ Len(logic.luts) > Len(pre.luts)
    /\ \E i \in DOMAIN pre.luts : Len(logic.luts[i].inputs) < Len(pre.luts[i].inputs)

\* C8: deduplicate run again right after deduplicate leaves the LogicList as
\* the first run left it and returns False.
C8_DedupIdempotent ==
    (last.op = "deduplicate_again" /\ Valid(pre)) => (logic = pre /\ ~last.changed)

\* the first position of s that holds an element with the operands of s[k]
first_same(s, k, operands(_)) ==
    CHOOSE i \in 1..k : operands(s[i]) = operands(s[k])
                          /\ \A h \in 1..(i - 1) : operands(s[h]) # operands(s[k])

\* every use of signal `old` in L is a use of signal `new` in M, for the LUTs
\* and FFs of L that M still holds (found by their output) and the external markers
uses_moved(L, M, old, new) ==
    /\ old \notin signals_used(M) \cup M.external_inputs
    /\ old \in L.external_outputs => new \in M.external_outputs
    /\ \A k \in DOMAIN L.ffs : \A m \in DOMAIN M.ffs :
          (L.ffs[k].input = old /\ M.ffs[m].output = L.ffs[k].output)
              => M.ffs[m].input = new
    /\ \A k \in DOMAIN L.luts : \A m \in DOMAIN M.luts :
          (M.luts[m].output = L.luts[k].output /\ Len(M.luts[m].inputs) = Len(L.luts[k].inputs))
              => \A n \in DOMAIN L.luts[k].inputs :
                    L.luts[k].inputs[n] = old => M.luts[m].inputs[n] = new

\* the component of `before` with output `kept` remains in `after`, the one
\* with output `deleted` is gone, and the uses of `deleted` are uses of `kept`
merged_into(before, after, kept, deleted) ==
    /\ kept \in driven_keys(after)
    /\ deleted \notin driven_keys(after)
    /\ uses_moved(before, after, deleted, kept)

\* C9: of two FFs with the same input and init when deduplicate starts, and of
\* two LUTs with the same inputs and table, the first in list order is kept,
\* the later one is deleted, and the uses of the deleted one's output refer
\* to the kept one's output after the pass.
C9_KeepFirst ==
    (last.op = "deduplicate" /\ Valid(pre)) =>
        /\ \A j \in DOMAIN pre.ffs :
              LET i == first_same(pre.ffs, j, FF_operands_tuple)
              IN i # j => merged_into(pre, logic, pre.ffs[i].output, pre.ffs[j].output)
        /\ \A j \in DOMAIN pre.luts :
              LET i == first_same(pre.luts, j, LUT_operands_tuple)
              IN i # j => merged_into(pre, logic, pre.luts[i].output, pre.luts[j].output)

\* the signals reachable backward from the signals in S through the LUTs and FFs
RECURSIVE backward(_, _)
backward(L, S) ==
    LET T == S \cup UNION {Range(L.luts[i].inputs) : i \in {k \in DOMAIN L.luts : L.luts[k].output \in S}}
                \cup {L.ffs[i].input : i \in {k \in DOMAIN L.ffs : L.ffs[k].output \in S}}
    IN IF T = S THEN S ELSE backward(L, T)

is_live(L, s) == s \in backward(L, L.external_inputs \cup L.external_outputs)

\* C10: after remove_dead the signals left are the live ones (the external
\* inputs and outputs and what is reachable backward from them), the LUTs
\* and FFs left are those with a live output, none of them refers to a
\* deleted signal, and True is returned exactly when the number of LUTs, FFs
\* and signals went down.
C10_RemoveDead ==
    (last.op = "remove_dead" /\ Valid(pre)) =>
        /\ logic.signals = SelectSeq(pre.signals, LAMBDA s : is_live(pre, s))
        /\ logic.luts = SelectSeq(pre.luts, LAMBDA lut : is_live(pre, lut.output))
        /\ logic.ffs = SelectSeq(pre.ffs, LAMBDA ff : is_live(pre, ff.output))
        /\ signals_used(logic) \cup driven_keys(logic) \subseteq Range(logic.signals)
        /\ logic.external_inputs = pre.external_inputs
        /\ logic.external_outputs = pre.external_outputs
        /\ last.changed <=>
              Len(logic.luts) + Len(logic.ffs) + Len(logic.signals)
                  < Len(pre.luts) + Len(pre.ffs) + Len(pre.signals)

\* remove_dead deleted a signal, and kept an FF and its input, a signal that
\* is neither an external input nor an external output
C10_Witness ==
    /\ last.op = "remove_dead"
    /\ last.changed
    /\ Len(logic.signals) < Len(pre.signals)
    /\ \E k \in DOMAIN logic.ffs :
          /\ logic.ffs[k].input \in Range(logic.signals)
          /\ logic.ffs[k].input \notin logic.external_inputs \cup logic.external_outputs

----------------------------------------------------------------------------
(* synth/flow/net_to_grid.py: Grid.  A Grid G is the record of its fields;  *)
(* lists and arrays are sequences read at index + 1, G.grid is a function   *)
(* of the cell <<x, y>>.                                                    *)

\* the source's -2 ** 32 is outside the integers of the model checker;
\* what matters is that it is no component index
GRID_EMPTY == -2

\* the minimum and the maximum of a non-empty set of integers

\* math.ceil(math.sqrt(n))
ceil_sqrt(n) == Min({k \in 0..n : k * k >= n})

\* NetList.__init__: the wires vdd, gnd and clk, which are the global wires
\* debug_names[w + 1] is the set Wire.debug_names of the wire with unique_id w
NetList_init ==
    [wires |-> <<0, 1, 2>>, components |-> <<>>, global_wires |-> {0, 1, 2},
     debug_names |-> <<{"vdd"}, {"gnd"}, {"clk"}>>]

\* NetList.new_wire()
NetList_new_wire(N) ==
    [N EXCEPT !.wires = Append(@, Len(@)), !.debug_names = Append(@, {})]

\* NetList.new_wire(debug_name)
NetList_new_wire_named(N, debug_name) ==
    [N EXCEPT !.wires = Append(@, Len(@)), !.debug_names = Append(@, {debug_name})]

\* NetList.push_component; a component is the list of the wires of its ports()
NetList_push_component(N, ports) == [N EXCEPT !.components = Append(@, ports)]

wire_to_index(N, wire) == (CHOOSE k \in DOMAIN N.wires : N.wires[k] = wire) - 1

\* Grid.__init__, "build lookup tables": the ports of component ci (list
\* position + 1) that are not on a global wire, as wire indices in port order
component_index_to_wire_indices(N) ==
    [c \in DOMAIN N.components |->
        LET ports == N.components[c]
            local == SelectSeq(ports, LAMBDA w : w \notin N.global_wires)
        IN [k \in DOMAIN local |-> wire_to_index(N, local[k])]]

\* the components on wire index wi, one entry per port, in component order
RECURSIVE wire_components(_, _, _)
wire_components(c2w, wi, c) ==
    IF c > Len(c2w) THEN <<>>
    ELSE [k \in 1..CountSeq(c2w[c], wi) |-> c - 1] \o wire_components(c2w, wi, c + 1)

wire_index_to_component_indices(N) ==
    [w \in DOMAIN N.wires |-> wire_components(component_index_to_wire_indices(N), w - 1, 1)]

grid_index_to_xy(G, gi) == <<gi % G.grid_size, gi \div G.grid_size>>

wire_half_perimeter_cost(G, wi) ==
    LET cis == G.wire_index_to_component_indices[wi + 1]
        xs == {grid_index_to_xy(G, G.component_to_grid_pos[cis[k] + 1])[1] : k \in DOMAIN cis}
        ys == {grid_index_to_xy(G, G.component_to_grid_pos[cis[k] + 1])[2] : k \in DOMAIN cis}
    IN IF Len(cis) <= 1 THEN 0
       ELSE (Max(xs) - Min(xs)) + (Max(ys) - Min(ys))

wire_cost(G, wi) == wire_half_perimeter_cost(G, wi)

calc_wire_costs(G) ==
    [w \in DOMAIN G.wire_index_to_component_indices |-> wire_cost(G, w - 1)]

\* Grid.__init__; indexed_components is the shuffled list(range(len(net.components)))
Grid_init(N, indexed_components) ==
    LET size == ceil_sqrt(Len(N.components))
        cells == {<<x, y>> : x \in 0..(size - 1), y \in 0..(size - 1)}
        G0 == [grid_size |-> size,
               grid_area |-> size * size,
               wire_index_to_component_indices |-> wire_index_to_component_indices(N),
               component_index_to_wire_indices |-> component_index_to_wire_indices(N),
               grid |-> [cell \in cells |-> GRID_EMPTY],
               component_to_grid_pos |-> indexed_components,
               wire_index_to_cost |-> <<>>,
               curr_cost |-> 0]
        G1 == [G0 EXCEPT !.grid = [cell \in cells |->
                    IF \E c \in DOMAIN indexed_components :
                           grid_index_to_xy(G0, indexed_components[c]) = cell
                    THEN (CHOOSE c \in DOMAIN indexed_components :
                           grid_index_to_xy(G0, indexed_components[c]) = cell) - 1
                    ELSE GRID_EMPTY]]
    IN [G1 EXCEPT !.wire_index_to_cost = calc_wire_costs(G1),
                  !.curr_cost = SumSeq(calc_wire_costs(G1))]

\* a swap_grid_cells_leave_cost that moves the components on the grid and
\* leaves component_to_grid_pos alone
swap_grid_cells_leave_pos(G, ai, bi) ==
    LET a == grid_index_to_xy(G, ai)
        b == grid_index_to_xy(G, bi)
        ca == G.grid[a]
        cb == G.grid[b]
    IN IF ai = bi THEN [ok |-> FALSE, grid |-> G]
       ELSE IF ca = cb THEN [ok |-> FALSE, grid |-> G]
       ELSE [ok |-> TRUE,
             grid |-> [G EXCEPT !.grid = [[@ EXCEPT ![a] = cb] EXCEPT ![b] = ca]]]

\* swap_grid_cells_leave_cost: [ok, grid], ok the returned flag
swap_grid_cells_leave_cost(G, ai, bi) ==
    LET a == grid_index_to_xy(G, ai)
        b == grid_index_to_xy(G, bi)
        ca == G.grid[a]
        cb == G.grid[b]
        pos1 == IF ca # GRID_EMPTY THEN [G.component_to_grid_pos EXCEPT ![ca + 1] = bi]
                ELSE G.component_to_grid_pos
        pos2 == IF cb # GRID_EMPTY THEN [pos1 EXCEPT ![cb + 1] = ai] ELSE pos1
    IN IF ai = bi THEN [ok |-> FALSE, grid |-> G]
       ELSE IF ca = cb THEN [ok |-> FALSE, grid |-> G]
       ELSE [ok |-> TRUE,
             grid |-> [G EXCEPT !.grid = [[@ EXCEPT ![a] = cb] EXCEPT ![b] = ca],
                                !.component_to_grid_pos = pos2]]

\* a try_swap_cells that keeps every possible swap and leaves the costs alone
try_swap_cells_stale(G, ai, bi, accept) ==
    LET s == swap_grid_cells_leave_cost(G, ai, bi)
    IN IF ~s.ok THEN [ret |-> FALSE, grid |-> G] ELSE [ret |-> TRUE, grid |-> s.grid]

\* a try_swap_cells that also keeps a swap of equal cost
try_swap_cells_not_worse(G, ai, bi, accept) ==
    LET s == swap_grid_cells_leave_cost(G, ai, bi)
        S == s.grid
        ca == S.grid[grid_index_to_xy(S, ai)]
        cb == S.grid[grid_index_to_xy(S, bi)]
        affected_wires ==
            (IF ca # GRID_EMPTY THEN Range(S.component_index_to_wire_indices[ca + 1]) ELSE {})
            \cup (IF cb # GRID_EMPTY THEN Range(S.component_index_to_wire_indices[cb + 1]) ELSE {})
        affected == SortedSeq(affected_wires)
        new_cost == S.curr_cost
                    + SumSeq([k \in DOMAIN affected |->
                                wire_cost(S, affected[k]) - S.wire_index_to_cost[affected[k] + 1]])
    IN IF ~s.ok THEN [ret |-> FALSE, grid |-> G]
       ELSE IF new_cost <= S.curr_cost \/ accept
       THEN [ret |-> TRUE,
             grid |-> [S EXCEPT !.curr_cost = new_cost,
                                !.wire_index_to_cost = [w \in DOMAIN @ |->
                                    IF (w - 1) \in affected_wires THEN wire_cost(S, w - 1) ELSE @[w]]]]
       ELSE [ret |-> FALSE, grid |-> swap_grid_cells_leave_cost(S, ai, bi).grid]

\* a try_swap_cells that leaves a swap it does not keep on the grid
try_swap_cells_no_undo(G, ai, bi, accept) ==
    LET s == swap_grid_cells_leave_cost(G, ai, bi)
        S == s.grid
        ca == S.grid[grid_index_to_xy(S, ai)]
        cb == S.grid[grid_index_to_xy(S, bi)]
        affected_wires ==
            (IF ca # GRID_EMPTY THEN Range(S.component_index_to_wire_indices[ca + 1]) ELSE {})
            \cup (IF cb # GRID_EMPTY THEN Range(S.component_index_to_wire_indices[cb + 1]) ELSE {})
        affected == SortedSeq(affected_wires)
        new_cost == S.curr_cost
                    + SumSeq([k \in DOMAIN affected |->
                                wire_cost(S, affected[k]) - S.wire_index_to_cost[affected[k] + 1]])
    IN IF ~s.ok THEN [ret |-> FALSE, grid |-> G]
       ELSE IF new_cost < S.curr_cost \/ accept
       THEN [ret |-> TRUE,
             grid |-> [S EXCEPT !.curr_cost = new_cost,
                                !.wire_index_to_cost = [w \in DOMAIN @ |->
                                    IF (w - 1) \in affected_wires THEN wire_cost(S, w - 1) ELSE @[w]]]]
       ELSE [ret |-> FALSE, grid |-> S]

\* try_swap_cells(ai, bi, temp): [ret, grid]; `accept` is the outcome of
\* np.random.uniform() < temp
try_swap_cells(G, ai, bi, accept) ==
    LET s == swap_grid_cells_leave_cost(G, ai, bi)
        S == s.grid
        ca == S.grid[grid_index_to_xy(S, ai)]
        cb == S.grid[grid_index_to_xy(S, bi)]
        affected_wires ==
            (IF ca # GRID_EMPTY THEN Range(S.component_index_to_wire_indices[ca + 1]) ELSE {})
            \cup (IF cb # GRID_EMPTY THEN Range(S.component_index_to_wire_indices[cb + 1]) ELSE {})
        affected == SortedSeq(affected_wires)
        new_cost == S.curr_cost
                    + SumSeq([k \in DOMAIN affected |->
                                wire_cost(S, affected[k]) - S.wire_index_to_cost[affected[k] + 1]])
    IN IF ~s.ok THEN [ret |-> FALSE, grid |-> G]
       ELSE IF new_cost < S.curr_cost \/ accept
       THEN [ret |-> TRUE,
             grid |-> [S EXCEPT !.curr_cost = new_cost,
                                !.wire_index_to_cost = [w \in DOMAIN @ |->
                                    IF (w - 1) \in affected_wires THEN wire_cost(S, w - 1) ELSE @[w]]]]
       ELSE [ret |-> FALSE, grid |-> swap_grid_cells_leave_cost(S, ai, bi).grid]

----------------------------------------------------------------------------
(* SpecGrid: a Grid built on a NetList, then any sequence of try_swap_cells *)

MaxNetWires == 2
MaxComponents == 2

\* temp and the draw of np.random.uniform() in halves: temp is 0 or 0.5,
\* the draw falls in [0, 0.5) or [0.5, 1)
Temps == {0, 1}
Uniforms == {0, 1}

RECURSIVE with_wires(_, _)
with_wires(N, k) == IF k = 0 THEN N ELSE with_wires(NetList_new_wire(N), k - 1)

RECURSIVE with_components(_, _)
with_components(N, comps) ==
    IF comps = <<>> THEN N
    ELSE with_components(NetList_push_component(N, Head(comps)), Tail(comps))

\* two-port components (Resistor(a, b)): from gnd to the first new wire, with
\* both ports on the first new wire, from the first to the last new wire
Components == {<<1, 3>>, <<3, 3>>, <<3, 2 + MaxNetWires>>}

\* the Grid that the variables hold; net holds the fields that try_swap_cells
\* never assigns: the size of the grid and the lookup tables built from the NetList
TheGrid ==
    [grid_size |-> net.grid_size,
     grid_area |-> net.grid_area,
     wire_index_to_component_indices |-> net.wire_index_to_component_indices,
     component_index_to_wire_indices |-> net.component_index_to_wire_indices,
     grid |-> grid,
     component_to_grid_pos |-> component_to_grid_pos,
     wire_index_to_cost |-> wire_index_to_cost,
     curr_cost |-> curr_cost]

\* grid = Grid(net)
InitGrid ==
    /\ LogicIdle
    /\ \E n \in 1..MaxComponents : \E comps \in [1..n -> Components] :
       \E indexed_components \in Perms(0..(n - 1)) :
          LET N == with_components(with_wires(NetList_init, MaxNetWires), comps)
              G == Grid_init(N, indexed_components)
          IN /\ net = [grid_size |-> G.grid_size,
                       grid_area |-> G.grid_area,
                       wire_index_to_component_indices |-> G.wire_index_to_component_indices,
                       component_index_to_wire_indices |-> G.component_index_to_wire_indices]
             /\ grid = G.grid
             /\ component_to_grid_pos = G.component_to_grid_pos
             /\ wire_index_to_cost = G.wire_index_to_cost
             /\ curr_cost = G.curr_cost
    /\ swap = [op |-> "init", temp |-> 0, empty |-> FALSE, ret |-> FALSE,
               undone |-> FALSE]

\* grid.try_swap_cells(ai, bi, temp)
TrySwapCells(ai, bi, temp, uniform) ==
    LET r == try_swap_cells(TheGrid, ai, bi, uniform < temp)
    IN /\ grid' = r.grid.grid
       /\ component_to_grid_pos' = r.grid.component_to_grid_pos
       /\ wire_index_to_cost' = r.grid.wire_index_to_cost
       /\ curr_cost' = r.grid.curr_cost
       /\ swap' = [op |-> "try_swap_cells", temp |-> temp, ret |-> r.ret,
                   empty |-> \/ grid[grid_index_to_xy(TheGrid, ai)] = GRID_EMPTY
                             \/ grid[grid_index_to_xy(TheGrid, bi)] = GRID_EMPTY,
                   undone |-> swap_grid_cells_leave_cost(TheGrid, ai, bi).ok /\ ~r.ret]
       /\ UNCHANGED net

GridTrySwapCells ==
    /\ \E ai, bi \in 0..(TheGrid.grid_area - 1) : \E temp \in Temps : \E uniform \in Uniforms :
          TrySwapCells(ai, bi, temp, uniform)
    /\ UNCHANGED logic_vars

NextGrid == GridTrySwapCells

SpecGrid == InitGrid /\ [][NextGrid]_vars

\* C3: after the construction of a Grid and after any sequence of
\* try_swap_cells calls, every cached cost in wire_index_to_cost is the cost
\* wire_cost computes from the current positions, and curr_cost is the sum
\* of the recomputed costs.
C3_CostCache ==
    /\ wire_index_to_cost = calc_wire_costs(TheGrid)
    /\ curr_cost = SumSeq(calc_wire_costs(TheGrid))

\* a swap of a component with an empty cell was kept at a temp above 0, and
\* the placement costs 2 or more afterwards
C3_Witness ==
    /\ swap.op = "try_swap_cells"
    /\ swap.ret
    /\ swap.temp > 0
    /\ swap.empty
    /\ curr_cost >= 2

----------------------------------------------------------------------------
(* simplify on larger valid LogicLists *)

MaxSimplifySize == 6

NextSimplify ==
    \/ ValidNewSignal(MaxSimplifySize)
    \/ ValidPushLut(MaxSimplifySize)
    \/ ValidPushFF(MaxSimplifySize)
    \/ ValidMarkInput(MaxSimplifySize)
    \/ ValidMarkOutput(MaxSimplifySize)
    \/ PassSimplify

SpecSimplify == Init /\ [][NextSimplify]_vars

is_buffer(lut) == lut.table = <<FALSE, TRUE>>

\* the signal a reference to s ends at when the buffers driving it are followed
RECURSIVE buffer_root(_, _)
buffer_root(L, s) ==
    LET bs == {i \in DOMAIN L.luts : is_buffer(L.luts[i]) /\ L.luts[i].output = s}
    IN IF bs = {} THEN s
       ELSE buffer_root(L, L.luts[CHOOSE i \in bs : TRUE].inputs[1])

kept_luts(L) == FilterIdx(L.luts, {i \in DOMAIN L.luts : ~is_buffer(L.luts[i])}, 1)

\* C11: after simplify no LUT with table [False, True] remains, and every
\* former reference to the output of a removed buffer (LUT inputs, FF inputs,
\* external markers) refers to the buffer's input signal, followed through
\* the chain when that input is itself the output of a removed buffer, in
\* either list order of the buffers.
C11_SimplifyBuffers ==
    (last.op = "simplify" /\ Valid(pre)) =>
        /\ \A i \in DOMAIN logic.luts : ~is_buffer(logic.luts[i])
        /\ logic.luts = [i \in DOMAIN kept_luts(pre) |->
                            [kept_luts(pre)[i] EXCEPT
                                !.inputs = [j \in DOMAIN @ |-> buffer_root(pre, @[j])]]]
        /\ logic.ffs = [i \in DOMAIN pre.ffs |->
                            [pre.ffs[i] EXCEPT !.input = buffer_root(pre, @)]]
        /\ logic.external_inputs = {buffer_root(pre, s) : s \in pre.external_inputs}
        /\ logic.external_outputs = {buffer_root(pre, s) : s \in pre.external_outputs}

\* simplify removed two chained buffers, the later one of the list driving
\* the earlier one, whose output was an external output
C11_Witness ==
    /\ last.op = "simplify"
    /\ \E i, j \in DOMAIN pre.luts :
          /\ i < j
          /\ is_buffer(pre.luts[i]) /\ is_buffer(pre.luts[j])
          /\ pre.luts[i].inputs[1] = pre.luts[j].output
          /\ pre.luts[i].output \in pre.external_outputs
          /\ logic.external_outputs = {pre.luts[j].inputs[1]}
    /\ logic.luts = <<>>

\* C12: with temp = 0 every try_swap_cells call (every opt_step) that
\* returns True strictly decreases curr_cost and every call that returns
\* False leaves it equal, so over any run of such calls curr_cost never
\* increases.
C12_ColdDescent ==
    [][(swap'.op = "try_swap_cells" /\ swap'.temp = 0) =>
            /\ swap'.ret => curr_cost' < curr_cost
            /\ ~swap'.ret => curr_cost' = curr_cost]_vars

\* a move of a component to an empty cell was kept at temp 0 and left a
\* cost above 0
C12_Witness ==
    /\ swap.op = "try_swap_cells"
    /\ swap.temp = 0
    /\ swap.ret
    /\ swap.empty
    /\ curr_cost >= 1

\* C28: every try_swap_cells call that returns False (the same cell twice, two
\* empty cells, or a swap that was not kept and was undone) leaves grid,
\* component_to_grid_pos, every cached wire cost and curr_cost as they were
\* before the call.
C28_FalseLeavesGrid ==
    [][(swap'.op = "try_swap_cells" /\ ~swap'.ret) =>
            /\ grid' = grid
            /\ component_to_grid_pos' = component_to_grid_pos
            /\ wire_index_to_cost' = wire_index_to_cost
            /\ curr_cost' = curr_cost]_vars

\* a swap of two components was made, not kept and undone, on a grid whose
\* cost is above 0
C28_Witness ==
    /\ swap.op = "try_swap_cells"
    /\ ~swap.ret
    /\ swap.undone
    /\ ~swap.empty
    /\ curr_cost >= 1

\* C13: after the construction of a Grid and after any sequence of
\* try_swap_cells calls, each component index ci is held by exactly one cell
\* of the grid, that cell is the one component_to_grid_pos[ci] names, its
\* coordinates lie in [0, grid_size) x [0, grid_size), every other cell holds
\* GRID_EMPTY, and grid_size is the ceiling of the square root of the number
\* of components.
C13_GridAgrees ==
    LET n == Len(net.component_index_to_wire_indices)
        size == net.grid_size
        cells == {<<x, y>> : x \in 0..(size - 1), y \in 0..(size - 1)}
        held == {grid_index_to_xy(TheGrid, component_to_grid_pos[c]) : c \in 1..n}
    IN /\ size * size >= n /\ (size - 1) * (size - 1) < n
       /\ net.grid_area = size * size
       /\ DOMAIN grid = cells
       /\ Len(component_to_grid_pos) = n
       /\ \A ci \in 0..(n - 1) :
             /\ component_to_grid_pos[ci + 1] \in 0..(net.grid_area - 1)
             /\ grid_index_to_xy(TheGrid, component_to_grid_pos[ci + 1]) \in cells
             /\ {cell \in cells : grid[cell] = ci}
                    = {grid_index_to_xy(TheGrid, component_to_grid_pos[ci + 1])}
       /\ \A cell \in cells \ held : grid[cell] = GRID_EMPTY

\* two components have changed places, with an empty cell left on the grid
C13_Witness ==
    /\ swap.op = "try_swap_cells"
    /\ swap.ret
    /\ ~swap.empty
    /\ \E cell \in DOMAIN grid : grid[cell] = GRID_EMPTY

----------------------------------------------------------------------------
(* Net optimizer (net_opt.py, opt_util.py, components.py) *)

\* a component is its class and the wires of its ports; a wire is its unique_id
Bridge(a, b) == [kind |-> "Bridge", ports |-> <<a, b>>]
Resistor(a, b) == [kind |-> "Resistor", ports |-> <<a, b>>]

\* NetList.connect
NetList_connect(N, a, b) == NetList_push_component(N, Bridge(a, b))

\* NetList.replace_wire: the NetList afterwards and the returned count
NetList_replace_wire(N, old, new) ==
    IF old = new THEN [net |-> N, count |-> 0]
    ELSE [net |-> [N EXCEPT !.components = [i \in DOMAIN @ |->
                      [@[i] EXCEPT !.ports = [k \in DOMAIN @ |-> Replace(@[k], old, new)]]],
                            !.debug_names[new + 1] = @ \cup N.debug_names[old + 1]],
          count |-> SumSeq([i \in DOMAIN N.components |->
                               CountSeq(N.components[i].ports, old)])]

\* a `prefer` that picks the wire with the larger unique_id
prefer_larger(a, b) == a > b

\* the lambda combine_connections passes as `prefer`
prefer(a, b) == a < b

\* canonicalize, the loop over connections from position i on: [raised, better];
\* a dict is the sequence of its <<key, value>> items in insertion order
RECURSIVE canonicalize_better(_, _, _)
canonicalize_better(connections, better, i) ==
    IF i > Len(connections) THEN [raised |-> "ok", better |-> better]
    ELSE LET a0 == connections[i][1]
             b0 == connections[i][2]
             a == IF dict_has(better, a0) THEN dict_get(better, a0) ELSE a0
             b == IF dict_has(better, b0) THEN dict_get(better, b0) ELSE b0
         IN IF dict_has(better, a) \/ dict_has(better, b)
            THEN [raised |-> "AssertionError", better |-> better]
            ELSE IF prefer(a, b)
            THEN canonicalize_better(connections, Append(better, <<b, a>>), i + 1)
            ELSE canonicalize_better(connections, Append(better, <<a, b>>), i + 1)

\* the loop `while b in better: b = better[b]`: Some(b) when it ends, None when
\* it runs forever; a chain that ends visits each key at most once
RECURSIVE canonicalize_follow(_, _, _)
canonicalize_follow(better, b, left) ==
    IF ~dict_has(better, b) THEN Some(b)
    ELSE IF left = 0 THEN None
    ELSE canonicalize_follow(better, dict_get(better, b), left - 1)

\* canonicalize: [raised, best]; raised is "hang" when a loop never ends
canonicalize(connections) ==
    LET r == canonicalize_better(connections, <<>>, 1)
        better == r.better
        ends == [n \in DOMAIN better |-> canonicalize_follow(better, better[n][2], Len(better))]
    IN IF r.raised # "ok" THEN [raised |-> r.raised, best |-> <<>>]
       ELSE IF \E n \in DOMAIN ends : ends[n] = None THEN [raised |-> "hang", best |-> <<>>]
       ELSE [raised |-> "ok", best |-> [n \in DOMAIN better |-> <<better[n][1], ends[n][1]>>]]

\* combine_connections, the loop over replacements.items() from position i on
RECURSIVE combine_replace(_, _, _, _)
combine_replace(N, replacements, count, i) ==
    IF i > Len(replacements) THEN [net |-> N, count |-> count]
    ELSE LET r == NetList_replace_wire(N, replacements[i][1], replacements[i][2])
         IN combine_replace(r.net, replacements, count + r.count, i + 1)

\* a combine_connections that leaves the bridges in net.components
combine_connections_keep(N) ==
    LET bridges == SelectSeq(N.components, LAMBDA c : c.kind = "Bridge")
        connections == [k \in DOMAIN bridges |-> bridges[k].ports]
        c == canonicalize(connections)
        r == combine_replace(N, c.best, 0, 1)
    IN IF c.raised # "ok" THEN [net |-> N, raised |-> c.raised, changed |-> FALSE]
       ELSE [net |-> r.net, raised |-> "ok", changed |-> r.count > 0]

\* combine_connections: [net, raised, changed]
combine_connections(N) ==
    LET bridges == SelectSeq(N.components, LAMBDA c : c.kind = "Bridge")
        connections == [k \in DOMAIN bridges |-> bridges[k].ports]
        N1 == [N EXCEPT !.components = SelectSeq(@, LAMBDA c : c.kind # "Bridge")]
        c == canonicalize(connections)
        r == combine_replace(N1, c.best, 0, 1)
    IN IF c.raised # "ok" THEN [net |-> N1, raised |-> c.raised, changed |-> FALSE]
       ELSE [net |-> r.net, raised |-> "ok", changed |-> r.count > 0]

\* const_propagation and remove_dead of net_opt.py
net_const_propagation(N) == FALSE
net_remove_dead(N) == FALSE

\* optimize_net: [net, raised, changed], changed TRUE when a round changed the NetList
RECURSIVE optimize_net_loop(_, _)
optimize_net_loop(N, any) ==
    LET c == combine_connections(N)
        changed == c.changed \/ net_const_propagation(c.net) \/ net_remove_dead(c.net)
    IN IF c.raised # "ok" THEN [net |-> c.net, raised |-> c.raised, changed |-> any]
       ELSE IF ~changed THEN [net |-> c.net, raised |-> "ok", changed |-> any]
       ELSE optimize_net_loop(c.net, TRUE)

optimize_net(N) == optimize_net_loop(N, FALSE)

----------------------------------------------------------------------------
(* SpecNet: a NetList of bridges and resistors, then optimize_net *)

MaxOptComponents == 3

\* k more wires, each made by new_wire(debug_name) with a name of its own
RECURSIVE with_named_wires(_, _)
with_named_wires(N, k) ==
    IF k = 0 THEN N
    ELSE with_named_wires(NetList_new_wire_named(N, ToString(Len(N.wires))), k - 1)

\* the wires the components are put on: gnd and the new wires
OptWires == {1} \cup (3..(Len(net.wires) - 1))

\* optimize_net has not been called; a call that never ends leaves nothing to do
NetBuilding == last.op = "build" /\ Len(net.components) < MaxOptComponents

InitNet ==
    /\ LogicIdle
    /\ net = with_named_wires(NetList_init, MaxNetWires)
    /\ grid = <<>> /\ component_to_grid_pos = <<>>
    /\ wire_index_to_cost = <<>> /\ curr_cost = 0
    /\ swap = [op |-> "none", temp |-> 0, empty |-> FALSE, ret |-> FALSE,
               undone |-> FALSE]

NetUnchanged ==
    UNCHANGED <<logic, builders, grid, component_to_grid_pos, wire_index_to_cost,
                curr_cost, swap>>

\* net.connect(a, b)
NetConnect ==
    /\ NetBuilding
    /\ \E a, b \in OptWires : net' = NetList_connect(net, a, b)
    /\ UNCHANGED <<pre, last>>
    /\ NetUnchanged

\* net.push_component(Resistor(gnd, b))
NetPushResistor ==
    /\ NetBuilding
    /\ \E b \in OptWires : net' = NetList_push_component(net, Resistor(1, b))
    /\ UNCHANGED <<pre, last>>
    /\ NetUnchanged

\* optimize_net(net); pre is the NetList before the call
NetOptimize ==
    /\ last.raised # "hang"
    /\ LET r == optimize_net(net)
       IN /\ net' = r.net
          /\ pre' = net
          /\ last' = Done("optimize_net", r.raised, r.changed)
    /\ NetUnchanged

NextNet ==
    \/ NetConnect
    \/ NetPushResistor
    \/ NetOptimize

SpecNet == InitNet /\ [][NextNet]_vars

\* C14: whenever optimize_net comes back, the NetList has at most as many
\* components as before the call and holds no Bridge.
C14_NoBridgeLeft ==
    (last.op = "optimize_net" /\ last.raised # "hang") =>
        /\ Len(net.components) <= Len(pre.components)
        /\ \A i \in DOMAIN net.components : net.components[i].kind # "Bridge"

\* optimize_net returned after it removed two bridges and moved a resistor to
\* the wire the bridges were merged into
C14_Witness ==
    /\ last.op = "optimize_net"
    /\ last.raised = "ok"
    /\ last.changed
    /\ Len(pre.components) = 3
    /\ Len(net.components) = 1
    /\ net.components[1] = Resistor(1, 1)

----------------------------------------------------------------------------
(* SpecSim: a valid LogicList, then logic_sim for some number of steps *)

MaxSimSize == 5

\* history = logic_sim(logic, steps)
LogicSim(steps) ==
    /\ LET h == logic_sim(logic, steps)
       IN last' = [op |-> "logic_sim", raised |-> h.raised, changed |-> FALSE,
                   steps |-> steps, signal_history |-> h.signal_history]
    /\ UNCHANGED <<logic, builders, pre>>

SimLogic ==
    /\ Building
    /\ \E steps \in 1..MaxSteps : LogicSim(steps)
    /\ UNCHANGED grid_vars

NextSim ==
    \/ ValidNewSignal(MaxSimSize)
    \/ ValidPushLut(MaxSimSize)
    \/ ValidPushFF(MaxSimSize)
    \/ ValidMarkInput(MaxSimSize)
    \/ ValidMarkOutput(MaxSimSize)
    \/ SimLogic

SpecSim == Init /\ [][NextSim]_vars

\* C15: in the history logic_sim returns for a valid LogicList, the value of
\* each FF's output signal at step 0 is that FF's own init, whatever its
\* input is and whatever other FFs there are.
C15_FFInitAtStepZero ==
    (last.op = "logic_sim" /\ last.raised = "ok") =>
        \A i \in DOMAIN logic.ffs :
            last.signal_history[1][logic.ffs[i].output] = Some(logic.ffs[i].init)

\* the signals without a driver that a LUT or an FF reads
undriven_inputs(L) ==
    {s \in Range(L.signals) :
        /\ signals_driven(L, s) = {}
        /\ \/ \E i \in DOMAIN L.luts : s \in Range(L.luts[i].inputs)
           \/ \E i \in DOMAIN L.ffs : s = L.ffs[i].input}

\* C18: when a LUT or an FF of a valid LogicList reads a signal without a
\* driver, logic_sim completes all its steps without raising, and at every
\* step the signal evaluates to the unknown value.
C18_UndrivenIsUnknown ==
    (last.op = "logic_sim" /\ undriven_inputs(logic) # {}) =>
        /\ last.raised = "ok"
        /\ Len(last.signal_history) = last.steps
        /\ \A t \in DOMAIN last.signal_history : \A s \in undriven_inputs(logic) :
              sim_eval(logic, last.signal_history[t], s).value = None

\* const_propagation turned the FF at position i of `pre` into a zero-input
\* LUT with table [v] on the FF's output signal
replaced_by_const(i, v) ==
    /\ logic.ffs[i].output # pre.ffs[i].output
    /\ \E k \in DOMAIN logic.luts :
          /\ k > Len(pre.luts)
          /\ logic.luts[k] = [output |-> pre.ffs[i].output, inputs |-> <<>>, table |-> <<v>>]

\* C19: const_propagation replaces an FF by a zero-input constant LUT
\* producing v on the FF's output signal exactly when the lattice value of
\* the FF's output at the fixed point is def(v); an FF whose output is
\* OVERDEF is not replaced.
C19_FFConstIffOutputDef ==
    (last.op = "const_propagation" /\ Valid(pre)) =>
        LET lat == const_prop_lattice(pre).lattice
        IN \A i \in DOMAIN pre.ffs : \A v \in BOOLEAN :
              replaced_by_const(i, v) <=> lat[pre.ffs[i].output] = new_def(v)

\* The simulation semantics C20 speaks of, with caller-specified external
\* inputs: the dict of step t, given the dict `prev` of the step before
\* (first: there is none). External inputs take their scheduled values, each
\* FF output its own init on the first step and the previous value of its
\* input afterwards (unknown when the input has none), LUT outputs are
\* evaluated as logic_sim evaluates them.
sched_curr(L, prev, first, inputs) ==
    LET ff_value(i) == IF first THEN Some(L.ffs[i].init)
                       ELSE IF L.ffs[i].input \in DOMAIN prev THEN prev[L.ffs[i].input]
                       ELSE None
        ff_outputs == {L.ffs[i].output : i \in DOMAIN L.ffs}
        curr0 == [s \in L.external_inputs \cup ff_outputs |->
                    IF s \in L.external_inputs THEN Some(inputs[s])
                    ELSE ff_value(CHOOSE i \in DOMAIN L.ffs : L.ffs[i].output = s)]
    IN sim_step_luts(L, curr0, 1)

RECURSIVE sched_sim(_, _, _, _)
sched_sim(L, sched, t, history) ==
    IF t > Len(sched) THEN history
    ELSE sched_sim(L, sched, t + 1,
            Append(history,
                   sched_curr(L, IF t = 1 THEN <<>> ELSE history[t - 1], t = 1, sched[t])))

\* the value of signal s in the dict of a step: unknown when it has no entry
value_at(curr, s) == IF s \in DOMAIN curr THEN curr[s] ELSE None

\* C20: at the fixed point of the worklist of const_propagation, every signal
\* whose lattice value is def(v) has the value v at every simulation step
\* under every schedule of the external inputs.
C20_LatticeSound ==
    (last.op = "const_propagation" /\ Valid(pre)) =>
        LET lat == const_prop_lattice(pre).lattice
        IN \A sched \in [1..MaxSteps -> [pre.external_inputs -> BOOLEAN]] :
              LET h == sched_sim(pre, sched, 1, <<>>)
              IN \A t \in 1..MaxSteps : \A s \in DOMAIN lat :
                    is_def(lat[s]) => value_at(h[t], s) = lat[s].value

\* the same soundness, on the LogicLists in which every signal that a LUT or
\* an FF reads has a driver
SoundWhenDriven ==
    undriven_inputs(pre) = {} => C20_LatticeSound

----------------------------------------------------------------------------
(* Values of the builder (builder.py): Bit, BitVec, Unsigned.  Every one   *)
(* returns the LogicList afterwards and the signal(s) of the value built.   *)

\* LogicBuilder.new_bitvec / new_unsigned: n new signals
RECURSIVE new_bitvec(_, _)
new_bitvec(L, n) ==
    IF n = 0 THEN [logic |-> L, signals |-> <<>>]
    ELSE LET r == new_bitvec(L, n - 1)
         IN [logic |-> new_signal(r.logic),
             signals |-> Append(r.signals, r.logic.next_signal_id)]

\* LogicBuilder.const_unsigned, for a builder with the constants zero and one
const_unsigned(zero, one, bits, value) ==
    [i \in 1..bits |-> IF (value \div (2^(i - 1))) % 2 # 0 THEN one ELSE zero]

\* a mux with the two values exchanged
Bit_mux_swapped(L, select, signal_0, signal_1) ==
    LET inv == L.next_signal_id
        L1 == new_lut(L, <<select>>, gate_not_table)
        L2 == new_lut(L1, <<inv, signal_1>>, gate_and_table(2))
        L3 == new_lut(L2, <<select, signal_0>>, gate_and_table(2))
        L4 == new_lut(L3, <<inv + 1, inv + 2>>, gate_or_table(2))
    IN [logic |-> L4, signal |-> inv + 3]

\* Bit.mux on two Bits: inv = ~self, then or(and(inv, signal_0), and(self, signal_1))
Bit_mux(L, select, signal_0, signal_1) ==
    LET inv == L.next_signal_id
        L1 == new_lut(L, <<select>>, gate_not_table)
        L2 == new_lut(L1, <<inv, signal_0>>, gate_and_table(2))
        L3 == new_lut(L2, <<select, signal_1>>, gate_and_table(2))
        L4 == new_lut(L3, <<inv + 1, inv + 2>>, gate_or_table(2))
    IN [logic |-> L4, signal |-> inv + 3]

\* get_padded of Unsigned.shift; i is 0-based
get_padded(x, i, pad) == IF 0 <= i /\ i < Len(x) THEN x[i + 1] ELSE pad

\* Unsigned.shift, one stage of the barrel shifter: the list comprehension
\* over i_curr (0-based), from i_curr on
RECURSIVE shift_stage(_, _, _, _, _, _)
shift_stage(L, curr, select, offset, pad, i_curr) ==
    IF i_curr >= Len(curr) THEN [logic |-> L, signals |-> <<>>]
    ELSE LET m == Bit_mux(L, select, curr[i_curr + 1], get_padded(curr, i_curr + offset, pad))
             r == shift_stage(m.logic, curr, select, offset, pad, i_curr + 1)
         IN [logic |-> r.logic, signals |-> <<m.signal>> \o r.signals]

\* Unsigned.shift with an Unsigned amount: the loop over amount.bits from
\* i_amount (0-based) on
RECURSIVE Unsigned_shift(_, _, _, _, _, _)
Unsigned_shift(L, curr, amount, right, pad, i_amount) ==
    IF i_amount >= Len(amount) THEN [logic |-> L, signals |-> curr]
    ELSE LET dir_sign == IF right THEN 1 ELSE -1
             r == shift_stage(L, curr, amount[i_amount + 1], dir_sign * (2^i_amount), pad, 0)
         IN Unsigned_shift(r.logic, r.signals, amount, right, pad, i_amount + 1)

\* a full adder whose sum leaves the carry input out
Bit_full_add_half(L, a, b, c) ==
    LET k == L.next_signal_id
        L1 == new_lut(L, <<a, b>>, gate_and_table(2))
        L2 == new_lut(L1, <<a, c>>, gate_and_table(2))
        L3 == new_lut(L2, <<k, k + 1>>, gate_or_table(2))
        L4 == new_lut(L3, <<b, c>>, gate_and_table(2))
        L5 == new_lut(L4, <<k + 2, k + 3>>, gate_or_table(2))
        L6 == new_lut(L5, <<a, b>>, gate_xor_table(2))
        L7 == new_lut(L6, <<k + 5, k + 5>>, gate_or_table(2))
    IN [logic |-> L7, carry |-> k + 4, sum |-> k + 6]

\* Bit.full_add: c_out = (a & b) | (a & c) | (b & c), sum = a ^ b ^ c
Bit_full_add(L, a, b, c) ==
    LET k == L.next_signal_id
        L1 == new_lut(L, <<a, b>>, gate_and_table(2))
        L2 == new_lut(L1, <<a, c>>, gate_and_table(2))
        L3 == new_lut(L2, <<k, k + 1>>, gate_or_table(2))
        L4 == new_lut(L3, <<b, c>>, gate_and_table(2))
        L5 == new_lut(L4, <<k + 2, k + 3>>, gate_or_table(2))
        L6 == new_lut(L5, <<a, b>>, gate_xor_table(2))
        L7 == new_lut(L6, <<k + 5, c>>, gate_xor_table(2))
    IN [logic |-> L7, carry |-> k + 4, sum |-> k + 6]

\* Unsigned.add_full, the loop over the bits from i (1-based) on; the
\* result is the sums followed by the last carry
RECURSIVE Unsigned_add_full(_, _, _, _, _)
Unsigned_add_full(L, a, b, carry, i) ==
    IF i > Len(a) THEN [logic |-> L, signals |-> <<carry>>]
    ELSE LET f == Bit_full_add(L, a[i], b[i], carry)
             r == Unsigned_add_full(f.logic, a, b, f.carry, i + 1)
         IN [logic |-> r.logic, signals |-> <<f.sum>> \o r.signals]

\* BuilderValue.delay() on a vector: one FF with init False per signal
RECURSIVE delay(_, _)
delay(L, signals) ==
    IF signals = <<>> THEN [logic |-> L, signals |-> <<>>]
    ELSE LET r == delay(new_ff(L, Head(signals), FALSE), Tail(signals))
         IN [logic |-> r.logic, signals |-> <<L.next_signal_id>> \o r.signals]

\* a %= b on two vectors: the pairs appended to connections_to_make
imod(a, b) == [i \in DOMAIN a |-> <<a[i], b[i]>>]

RECURSIVE mark_all(_, _, _)
mark_all(L, signals, input) ==
    IF signals = <<>> THEN L
    ELSE mark_all(IF input THEN mark_external_input(L, Head(signals))
                  ELSE mark_external_output(L, Head(signals)),
                  Tail(signals), input)

\* design/tiny.py build_counter on a builder with the constants zero and one:
\* curr %= curr.add_trunc(1).delay(); [logic, curr, connections]
build_counter(L, zero, one, bits) ==
    LET curr == new_bitvec(L, bits)
        sum == Unsigned_add_full(curr.logic, curr.signals,
                                 const_unsigned(zero, one, bits, 1), zero, 1)
        delayed == delay(sum.logic, Front(sum.signals))
    IN [logic |-> delayed.logic, curr |-> curr.signals,
        connections |-> imod(curr.signals, delayed.signals)]

----------------------------------------------------------------------------
(* SpecDesigns: the designs of main_rtl.py, built, finished and simulated *)

MaxShiftBits == 3
MaxShamtBits == 2
MaxCounterBits == 3
MaxCounterSteps == 8

Fresh == logic = EmptyLogic /\ builders = <<>> /\ last.op = "build"

\* build = LogicBuilder(logic); input = build.new_unsigned(n); shamt = build.new_unsigned(m)
MainNewInputs(n, m) ==
    /\ Fresh
    /\ LET input == new_bitvec(builder_init(logic), n)
           shamt == new_bitvec(input.logic, m)
       IN /\ logic' = shamt.logic
          /\ last' = [op |-> "new_unsigned", raised |-> "ok", changed |-> FALSE,
                      input |-> input.signals, shamt |-> shamt.signals]
    /\ builders' = <<[open |-> TRUE, connections_to_make |-> <<>>]>>
    /\ UNCHANGED pre

\* output = input << shamt, or input >> shamt; the pad is build.const_bit(False)
MainShift(right) ==
    /\ last.op = "new_unsigned"
    /\ LET r == Unsigned_shift(logic, last.input, last.shamt, right, 0, 0)
       IN /\ logic' = r.logic
          /\ last' = [op |-> "shift", raised |-> "ok", changed |-> FALSE,
                      input |-> last.input, shamt |-> last.shamt,
                      right |-> right, output |-> r.signals]
    /\ UNCHANGED <<builders, pre>>

\* output_named %= output; the marks of main(); build.finish()
MainFinish ==
    /\ last.op = "shift"
    /\ LET named == new_bitvec(logic, Len(last.input))
           L1 == mark_all(mark_all(named.logic, last.input, TRUE), last.shamt, TRUE)
           L2 == mark_all(L1, last.output, FALSE)
       IN logic' = builder_finish(L2, imod(named.signals, last.output))
    /\ builders' = <<[open |-> FALSE, connections_to_make |-> <<>>]>>
    /\ last' = [last EXCEPT !.op = "shifter"]
    /\ pre' = logic

\* one step of the simulation with the external inputs set to the bits of
\* x and s: the values of the output bits
MainSim(x, s) ==
    /\ last.op = "shifter"
    /\ LET xs == const_unsigned(FALSE, TRUE, Len(last.input), x)
           ss == const_unsigned(FALSE, TRUE, Len(last.shamt), s)
           inputs == [sig \in logic.external_inputs |->
                        IF \E i \in DOMAIN last.input : last.input[i] = sig
                        THEN xs[CHOOSE i \in DOMAIN last.input : last.input[i] = sig]
                        ELSE ss[CHOOSE i \in DOMAIN last.shamt : last.shamt[i] = sig]]
           curr == sched_curr(logic, <<>>, TRUE, inputs)
       IN last' = [op |-> "sim", raised |-> validate(logic), changed |-> FALSE,
                   bits |-> Len(last.input), right |-> last.right, x |-> x, s |-> s,
                   outputs |-> [i \in DOMAIN last.output |-> value_at(curr, last.output[i])]]
    /\ UNCHANGED <<logic, builders, pre>>

\* build = LogicBuilder(logic); curr = build_counter(build, bits);
\* build.mark_external_output(curr)
CounterBuild(bits) ==
    /\ Fresh
    /\ LET L0 == builder_init(logic)
           c == build_counter(L0, logic.next_signal_id, logic.next_signal_id + 1, bits)
       IN /\ logic' = mark_all(c.logic, c.curr, FALSE)
          /\ builders' = <<[open |-> TRUE, connections_to_make |-> c.connections]>>
          /\ last' = Done("build", "ok", FALSE)
    /\ UNCHANGED pre

\* build.finish()
CounterFinish == builders # <<>> /\ Finish(1)

\* logic_sim(logic, steps) on the finished counter

CounterSim ==
    /\ last.op = "finish"
    /\ \E steps \in 1..MaxCounterSteps : LogicSim(steps)

DesignShifterInputs ==
    /\ \E n \in 1..MaxShiftBits : \E m \in 1..MaxShamtBits : MainNewInputs(n, m)
    /\ UNCHANGED grid_vars

DesignShift == (\E right \in BOOLEAN : MainShift(right)) /\ UNCHANGED grid_vars

DesignShifterFinish == MainFinish /\ UNCHANGED grid_vars

DesignShifterSim ==
    /\ last.op = "shifter"
    /\ \E x \in 0..(2^Len(last.input) - 1) : \E s \in 0..(2^Len(last.shamt) - 1) : MainSim(x, s)
    /\ UNCHANGED grid_vars

DesignCounter == (\E bits \in 1..MaxCounterBits : CounterBuild(bits)) /\ UNCHANGED grid_vars

DesignCounterFinish == CounterFinish /\ UNCHANGED grid_vars

DesignCounterSim == CounterSim /\ UNCHANGED grid_vars

NextDesigns ==
    \/ DesignShifterInputs
    \/ DesignShift
    \/ DesignShifterFinish
    \/ DesignShifterSim
    \/ DesignCounter
    \/ DesignCounterFinish
    \/ DesignCounterSim

SpecDesigns == Init /\ [][NextDesigns]_vars

\* the number a sequence of known bit values spells, little-endian
RECURSIVE bits_value(_)
bits_value(values) ==
    IF values = <<>> THEN 0
    ELSE (IF Head(values) = Some(TRUE) THEN 1 ELSE 0) + 2 * bits_value(Tail(values))

\* C16: for every value x and every shift amount s, the LUT network the
\* builder generates for x << s is valid and evaluates to (x * 2^s) modulo
\* 2^bits with every output bit known; for 3 bits and a 2-bit amount that is
\* (x * 2^s) mod 8.
C16_ShiftLeft ==
    (last.op = "sim" /\ ~last.right) =>
        /\ last.raised = "ok"
        /\ \A i \in DOMAIN last.outputs : last.outputs[i] # None
        /\ bits_value(last.outputs) = (last.x * 2^last.s) % (2^last.bits)

\* the 3-bit value 0b101 shifted left by 1 of a 2-bit amount gave 0b010
C16_Witness ==
    /\ last.op = "sim"
    /\ ~last.right
    /\ last.bits = 3
    /\ Cardinality(logic.external_inputs) = 5
    /\ last.x = 5 /\ last.s = 1
    /\ bits_value(last.outputs) = 2

\* C17: after finish(), the register of build_counter, read little-endian
\* from the simulated values of its bits (the FFs, which are the external
\* outputs), holds t mod 2^bits at step t, counted from 0; with 3 bits the
\* first 8 steps give 0..7.
C17_CounterCounts ==
    (last.op = "logic_sim" /\ logic.ffs # <<>>) =>
        /\ last.raised = "ok"
        /\ Len(last.signal_history) = last.steps
        /\ logic.external_outputs = {logic.ffs[i].output : i \in DOMAIN logic.ffs}
        /\ \A t \in DOMAIN last.signal_history :
              bits_value([i \in DOMAIN logic.ffs |->
                            last.signal_history[t][logic.ffs[i].output]])
                 = (t - 1) % (2^Len(logic.ffs))

\* the 3-bit counter was simulated for 8 steps and holds 7 at the last one
C17_Witness ==
    /\ last.op = "logic_sim"
    /\ Len(logic.ffs) = 3
    /\ last.steps = 8
    /\ \A i \in 1..3 : last.signal_history[8][logic.ffs[i].output] = Some(TRUE)

----------------------------------------------------------------------------
(* SpecRestrict: one LUT over the signals created so far, any table, then  *)
(* LUT.replace_consts with any list of constants                           *)

MaxRestrictInputs == 2

\* Optional[bool]
OptBool == {None, Some(FALSE), Some(TRUE)}

RestrictNewSignal ==
    /\ logic.luts = <<>>
    /\ logic.next_signal_id < MaxRestrictInputs
    /\ NewSignal
    /\ UNCHANGED grid_vars

\* logic.new_lut(inputs, table): the inputs are all signals, in creation order
RestrictNewLut ==
    /\ logic.luts = <<>>
    /\ \E table \in [1..(2^Len(logic.signals)) -> BOOLEAN] : NewLut(logic.signals, table)
    /\ UNCHANGED grid_vars

\* lut.replace_consts(consts)
ReplaceConsts(i, consts) ==
    /\ Building
    /\ pre' = logic
    /\ logic' = [logic EXCEPT !.luts[i] = replace_consts(@, consts)]
    /\ last' = [op |-> "replace_consts", raised |-> "ok", changed |-> FALSE,
                lut |-> i, consts |-> consts]
    /\ UNCHANGED builders

RestrictReplaceConsts ==
    /\ \E i \in DOMAIN logic.luts :
          \E consts \in [1..Len(logic.luts[i].inputs) -> OptBool] : ReplaceConsts(i, consts)
    /\ UNCHANGED grid_vars

NextRestrict ==
    \/ RestrictNewSignal
    \/ RestrictNewLut
    \/ RestrictReplaceConsts

SpecRestrict == Init /\ [][NextRestrict]_vars

\* the values of all inputs: the constants where there are constants, the
\* values `rest` of the remaining inputs (in their order) elsewhere
RECURSIVE fill_consts(_, _)
fill_consts(consts, rest) ==
    IF consts = <<>> THEN <<>>
    ELSE IF Head(consts) = None
    THEN <<Head(rest)>> \o fill_consts(Tail(consts), Tail(rest))
    ELSE <<Head(consts)>> \o fill_consts(Tail(consts), rest)

\* C21: LUT.replace_consts computes the restriction of the LUT: the new inputs
\* are the inputs without a constant, in their original order, the new table
\* has 2^(number of remaining inputs) entries, and for every assignment of the
\* remaining inputs the new table gives, at the little-endian index, what the
\* old table gives with the constant inputs at their constants.
C21_Restriction ==
    last.op = "replace_consts" =>
        LET old == pre.luts[last.lut]
            new == logic.luts[last.lut]
            consts == last.consts
            free == {j \in DOMAIN consts : consts[j] = None}
        IN /\ new.inputs = FilterIdx(old.inputs, free, 1)
           /\ Len(new.table) = 2^Cardinality(free)
           /\ \A rest \in [1..Cardinality(free) -> {Some(FALSE), Some(TRUE)}] :
                 LUT_eval(new, rest) = LUT_eval(old, fill_consts(consts, rest))

\* a two-input LUT restricted on its first input only: the lines 1 and 3 stay
C21_Witness ==
    /\ last.op = "replace_consts"
    /\ last.consts = <<Some(TRUE), None>>
    /\ pre.luts[1].table = <<FALSE, TRUE, FALSE, FALSE>>
    /\ logic.luts[1].inputs = <<1>>
    /\ logic.luts[1].table = <<TRUE, FALSE>>

----------------------------------------------------------------------------
(* SpecMerge: Lattice values as the constructor admits them, merged in the *)
(* order they were made, as the worklist of const_propagation merges the   *)
(* values it computes for one signal into the signal's previous value      *)

MaxOperands == 3

\* Lattice(is_overdef, value) for bool values; __post_init__ rejects an
\* overdefined Lattice with a value
LatticeValues ==
    {l \in [is_overdef : BOOLEAN, value : OptBool] : ~(l.is_overdef /\ l.value # None)}

\* Lattice(...): one more operand
LatticeNew ==
    /\ last.op \in {"build", "lattice"}
    /\ \E l \in LatticeValues :
          LET operands == IF last.op = "build" THEN <<l>> ELSE Append(last.operands, l)
          IN /\ Len(operands) <= MaxOperands
             /\ last' = [op |-> "lattice", raised |-> "ok", changed |-> FALSE,
                         operands |-> operands]
    /\ UNCHANGED <<logic, builders, pre>>
    /\ UNCHANGED grid_vars

\* output_new = output_prev.merge(output_new), once per further operand
RECURSIVE merge_all(_, _)
merge_all(prev, operands) ==
    IF operands = <<>> THEN [raised |-> "ok", value |-> prev]
    ELSE IF merge_missing(prev, Head(operands))
    THEN [raised |-> "AssertionError", value |-> prev]
    ELSE merge_all(merge(prev, Head(operands)), Tail(operands))

LatticeMerge ==
    /\ last.op = "lattice"
    /\ Len(last.operands) >= 2
    /\ LET r == merge_all(Head(last.operands), Tail(last.operands))
       IN last' = [op |-> "merge", raised |-> r.raised, changed |-> FALSE,
                   operands |-> last.operands, value |-> r.value]
    /\ UNCHANGED <<logic, builders, pre>>
    /\ UNCHANGED grid_vars

NextMerge ==
    \/ LatticeNew
    \/ LatticeMerge

SpecMerge == Init /\ [][NextMerge]_vars

\* the order of the lattice: UNDEF below def(False) and def(True), OVERDEF on top
lattice_leq(a, b) == is_undef(a) \/ a = b \/ b = OVERDEF

\* the least upper bound of a set of lattice values
lattice_join(S) ==
    CHOOSE u \in LatticeValues :
        /\ \A x \in S : lattice_leq(x, u)
        /\ \A w \in LatticeValues : (\A x \in S : lattice_leq(x, w)) => lattice_leq(u, w)

\* C22: Lattice.merge is the join of the lattice UNDEF < def(False), def(True)
\* < OVERDEF: it returns a value for every pair, UNDEF is its identity,
\* def(v) merged with def(v) is def(v), def(False) merged with def(True) is
\* OVERDEF, OVERDEF absorbs, it is commutative, associative and idempotent;
\* so merging into a previous value never moves it down and the two
\* assertions of the worklist on the previous value hold.
C22_MergeIsJoin ==
    last.op = "merge" =>
        LET ops == last.operands
            a == ops[1]
            b == ops[2]
            c == ops[Len(ops)]
            ab == merge(a, b)
        IN /\ last.raised = "ok"
           /\ ~merge_missing(a, b)
           /\ ab \in LatticeValues
           /\ ab = lattice_join({a, b})
           /\ last.value = lattice_join(Range(ops))
           /\ merge(UNDEF, a) = a /\ merge(a, UNDEF) = a
           /\ (is_def(a) /\ a = b) => ab = a
           /\ (is_def(a) /\ is_def(b) /\ a # b) => ab = OVERDEF
           /\ merge(OVERDEF, a) = OVERDEF /\ merge(a, OVERDEF) = OVERDEF
           /\ ab = merge(b, a)
           /\ merge(ab, c) = merge(a, merge(b, c))
           /\ merge(a, a) = a
           /\ lattice_leq(a, ab)
           /\ a.is_overdef => ab.is_overdef
           /\ is_def(a) => (is_def(ab) \/ ab.is_overdef)

\* def(False), then def(False) again, then def(True): OVERDEF
C22_Witness ==
    /\ last.op = "merge"
    /\ last.operands = <<new_def(FALSE), new_def(FALSE), new_def(TRUE)>>
    /\ last.value = OVERDEF

----------------------------------------------------------------------------
(* SpecOptimize: optimize_logic on the valid LogicLists whose LUTs have up *)
(* to three inputs                                                         *)

MaxOptimizeSize == 6

\* the input lists of SpecPasses and the lists of three different signals
InputLists3 ==
    InputLists \cup {l \in {<<a, b, c>> : a, b, c \in Sigs} : Cardinality(Range(l)) = 3}

OptimizePushLut ==
    /\ \E output \in Sigs : \E inputs \in InputLists3 :
          \E table \in IF Len(inputs) = 3 THEN {gate_and_table(3)} ELSE TablesFor(inputs) :
             /\ Grows(push_lut(logic, [output |-> output, inputs |-> inputs,
                                       table |-> table]), MaxOptimizeSize)
             /\ PushLut(output, inputs, table)
    /\ UNCHANGED grid_vars

NextOptimize ==
    \/ ValidNewSignal(MaxOptimizeSize)
    \/ OptimizePushLut
    \/ ValidPushFF(MaxOptimizeSize)
    \/ ValidMarkInput(MaxOptimizeSize)
    \/ ValidMarkOutput(MaxOptimizeSize)
    \/ DoOptimize

SpecOptimize == Init /\ [][NextOptimize]_vars

\* C23: optimize_logic on a valid LogicList ends in an iteration of its loop
\* in which no pass reports a change: it returns, and on the LogicList it
\* leaves each of the four passes finds nothing to change.
C23_OptimizeTerminates ==
    (last.op = "optimize_logic" /\ Valid(pre)) =>
        /\ last.raised = "ok"
        /\ \A order \in const_prop_orders(logic) : \A met \in const_prop_mets(logic) :
              ~const_propagation(logic, order, met).changed
        /\ ~remove_dead(logic).changed
        /\ ~deduplicate(logic).changed
        /\ ~simplify(logic).changed

----------------------------------------------------------------------------
(* synth/net/basic.py and synth/flow/logic_to_net.py: the pulldown network *)
(* of a LUT.  vdd is wire 0, gnd wire 1.                                   *)

NMOS(gate, up, down) == [kind |-> "NMOS", ports |-> <<gate, up, down>>]

\* gate_not: [net, wire]
gate_not(N, input) ==
    LET output == Len(N.wires)
        N1 == NetList_new_wire(N)
        N2 == NetList_push_component(N1, NMOS(input, output, 1))
    IN [net |-> NetList_push_component(N2, Resistor(0, output)), wire |-> output]

\* input_wire on st = [net, inverted_inputs]: [net, inverted_inputs, wire];
\* index is 0-based
input_wire(st, inputs, index, value) ==
    IF value THEN [net |-> st.net, inverted_inputs |-> st.inverted_inputs,
                   wire |-> inputs[index + 1]]
    ELSE IF st.inverted_inputs[index + 1] = None
    THEN LET g == gate_not(st.net, inputs[index + 1])
         IN [net |-> g.net,
             inverted_inputs |-> [st.inverted_inputs EXCEPT ![index + 1] = Some(g.wire)],
             wire |-> g.wire]
    ELSE [net |-> st.net, inverted_inputs |-> st.inverted_inputs,
          wire |-> st.inverted_inputs[index + 1][1]]

\* an input_value that takes the bits of `bits` from the other end
input_value_big(bits, input_index, k) == (bits \div 2^(k - 1 - input_index)) % 2 # 0

\* input_value = (bits >> input_index) & 1 != 0
input_value(bits, input_index, k) == (bits \div 2^input_index) % 2 # 0

\* gate_table, the loop over the inputs for the table line `bits`, from
\* input_index on; st = [net, inverted_inputs].  (The test on st1 makes the
\* model checker compute st1 before it goes on; a branch has a component.)
RECURSIVE gate_table_branch(_, _, _, _, _)
gate_table_branch(st, inputs, bits, input_index, curr) ==
    IF input_index >= Len(inputs) THEN [st EXCEPT !.net = NetList_connect(@, curr, 1)]
    ELSE LET g == input_wire(st, inputs, input_index,
                             input_value(bits, input_index, Len(inputs)))
             next == Len(g.net.wires)
             N1 == NetList_new_wire(g.net)
             st1 == [net |-> NetList_push_component(N1, NMOS(g.wire, curr, next)),
                     inverted_inputs |-> g.inverted_inputs]
         IN IF st1.net.components = <<>> THEN st1
            ELSE gate_table_branch(st1, inputs, bits, input_index + 1, next)

\* gate_table, the loop over the table from line `bits` on
RECURSIVE gate_table_lines(_, _, _, _, _)
gate_table_lines(st, table, inputs, bits, output) ==
    IF bits >= Len(table) THEN st
    ELSE IF table[bits + 1] THEN gate_table_lines(st, table, inputs, bits + 1, output)
    ELSE LET st1 == gate_table_branch(st, inputs, bits, 0, output)
         IN IF st1.net.components = <<>> THEN st1
            ELSE gate_table_lines(st1, table, inputs, bits + 1, output)

\* gate_table(netlist, table, inputs, None): [net, inverted_inputs, wire, raised]
gate_table(N, table, inputs) ==
    IF Len(table) # 2^Len(inputs)
    THEN [net |-> N, inverted_inputs |-> <<>>, wire |-> 0, raised |-> "AssertionError"]
    ELSE LET output == Len(N.wires)
             st == gate_table_lines([net |-> NetList_new_wire(N),
                                     inverted_inputs |-> [i \in DOMAIN inputs |-> None]],
                                    table, inputs, 0, output)
         IN [net |-> NetList_push_component(st.net, Resistor(0, output)),
             inverted_inputs |-> st.inverted_inputs, wire |-> output, raised |-> "ok"]

\* __append_lut, on the wires of the signals
append_lut(N, output, inputs, table) ==
    LET g == gate_table(N, table, inputs)
    IN [g EXCEPT !.net = IF g.raised = "ok" THEN NetList_connect(@, output, g.wire) ELSE @]

----------------------------------------------------------------------------
(* SpecGate: wires for the signals, one LUT lowered by __append_lut, then  *)
(* the network with its inputs driven                                      *)

MaxGateInputs == 2

GateUnchanged ==
    UNCHANGED <<logic, builders, pre, grid, component_to_grid_pos, wire_index_to_cost,
                curr_cost, swap>>

InitGate ==
    /\ LogicIdle
    /\ net = NetList_init
    /\ grid = <<>> /\ component_to_grid_pos = <<>>
    /\ wire_index_to_cost = <<>> /\ curr_cost = 0
    /\ swap = [op |-> "none", temp |-> 0, empty |-> FALSE, ret |-> FALSE,
               undone |-> FALSE]

\* the wires of the signals: all but vdd, gnd and clk
SignalWires == Range(net.wires) \ net.global_wires

\* wire = net.new_wire(), for one more signal
GateNewWire ==
    /\ last.op = "build"
    /\ Cardinality(SignalWires) <= MaxGateInputs
    /\ net' = NetList_new_wire(net)
    /\ UNCHANGED last
    /\ GateUnchanged

\* __append_lut(net, signal_to_wire, output, inputs, table); the output is the
\* wire of the signal made last, as for a LUT made by logic.new_lut
AppendLut(output, inputs, table) ==
    /\ LET g == append_lut(net, output, inputs, table)
       IN /\ net' = g.net
          /\ last' = [op |-> "append_lut", raised |-> g.raised, changed |-> FALSE,
                      table |-> table, inputs |-> inputs, output |-> output,
                      gate_output |-> g.wire, inverted_inputs |-> g.inverted_inputs]
    /\ GateUnchanged

GateAppendLut ==
    /\ last.op = "build"
    /\ SignalWires # {}
    /\ \E k \in 0..MaxGateInputs : \E inputs \in [1..k -> SignalWires \ {Max(SignalWires)}] :
          \E table \in [1..(2^k) -> BOOLEAN] :
              AppendLut(Max(SignalWires), inputs, table)

\* the level of a wire that is an input or the inverted copy of an input,
\* for the levels `values` of the input wires
gate_level(values, w) ==
    IF w \in DOMAIN values THEN values[w]
    ELSE \E i \in DOMAIN last.inputs :
            last.inverted_inputs[i] = Some(w) /\ ~values[last.inputs[i]]

\* the wire w and the wires joined to it by a Bridge or by an NMOS whose gate is 1
joined(N, values, w) ==
    {w} \cup UNION {IF N.components[i].kind = "Bridge" /\ w \in Range(N.components[i].ports)
                    THEN Range(N.components[i].ports)
                    ELSE IF /\ N.components[i].kind = "NMOS"
                            /\ w \in {N.components[i].ports[2], N.components[i].ports[3]}
                            /\ gate_level(values, N.components[i].ports[1])
                    THEN {N.components[i].ports[2], N.components[i].ports[3]}
                    ELSE {} : i \in DOMAIN N.components}

\* the wires with a conducting path to a wire of S
RECURSIVE conducting(_, _, _)
conducting(N, values, S) ==
    LET T == UNION {joined(N, values, w) : w \in S}
    IN IF T = S THEN S ELSE conducting(N, values, T)

\* the inputs are driven to the levels `values`
GatePulldown ==
    /\ last.op = "append_lut" /\ last.raised = "ok"
    /\ \E values \in [Range(last.inputs) -> BOOLEAN] :
          last' = [last EXCEPT !.op = "pulldown"] @@
                  [values |-> values,
                   grounded |-> 1 \in conducting(net, values, {last.gate_output})]
    /\ UNCHANGED net
    /\ GateUnchanged

NextGate ==
    \/ GateNewWire
    \/ GateAppendLut
    \/ GatePulldown

SpecGate == InitGate /\ [][NextGate]_vars

C25_DocstringRows ==
    (last.op = "pulldown" /\ Len(last.inputs) = 2) =>
        LET in0 == last.values[last.inputs[1]]
            in1 == last.values[last.inputs[2]]
        IN /\ (~in0 /\ in1) => (~last.grounded <=> last.table[2])
           /\ (in0 /\ ~in1) => (~last.grounded <=> last.table[3])


----------------------------------------------------------------------------
(* SpecCombine: a NetList of bridges and resistors on named wires, then
   combine_connections *)

\* count = combine_connections(net); pre is the NetList before the call
NetCombine ==
    /\ last.raised = "ok"
    /\ LET r == combine_connections(net)
       IN /\ net' = r.net
          /\ pre' = net
          /\ last' = Done("combine_connections", r.raised, r.changed)
    /\ NetUnchanged

NextCombine ==
    \/ NetConnect
    \/ NetPushResistor
    \/ NetCombine

SpecCombine == InitNet /\ [][NextCombine]_vars

\* the wires a Bridge of N joins to a wire of S in one step, with S
bridge_step(N, S) ==
    S \cup {w \in Range(N.wires) :
               \E i \in DOMAIN N.components :
                   /\ N.components[i].kind = "Bridge"
                   /\ \E x \in S : N.components[i].ports \in {<<x, w>>, <<w, x>>}}

\* the wires joined to w by a chain of Bridges of N
RECURSIVE bridge_closure(_, _)
bridge_closure(N, S) ==
    IF bridge_step(N, S) = S THEN S ELSE bridge_closure(N, bridge_step(N, S))

bridge_class(N, w) == bridge_closure(N, {w})

\* C26: when combine_connections returns, every port of every component that
\* is left refers to the wire with the smallest unique_id among the wires its
\* old wire was joined to by Bridges, and the debug names of that wire include
\* the debug names every wire of that class had before the call.
C26_SmallestOfClass ==
    (last.op = "combine_connections" /\ last.raised = "ok") =>
        LET kept == SelectSeq(pre.components, LAMBDA c : c.kind # "Bridge")
        IN /\ Len(net.components) = Len(kept)
           /\ \A i \in DOMAIN kept : \A k \in DOMAIN kept[i].ports :
                  net.components[i].ports[k] = Min(bridge_class(pre, kept[i].ports[k]))
           /\ \A w \in Range(pre.wires) :
                  pre.debug_names[w + 1] \subseteq
                      net.debug_names[Min(bridge_class(pre, w)) + 1]

\* combine_connections returned for the bridges (3, 4) and (gnd, 3): the
\* resistor between gnd and wire 4 has both ports on gnd, and gnd carries the
\* names of the wires 3 and 4
C26_Witness ==
    /\ last.op = "combine_connections"
    /\ last.raised = "ok"
    /\ pre.components = <<Bridge(3, 4), Bridge(1, 3), Resistor(1, 4)>>
    /\ net.components = <<Resistor(1, 1)>>
    /\ net.debug_names[2] = {"gnd", "3", "4"}

\* C27: every call of optimize_net on a NetList of bridges (a pair given
\* twice, pairs that close a cycle, chains of three wires in any order) and
\* resistors ends, and ends without an error.
C27_OptimizeNetTerminates == last.op = "optimize_net" => last.raised = "ok"

----------------------------------------------------------------------------
(* SpecReplace: a LogicList of named signals put together through the raw
   interface, then replace_signal *)

MaxReplaceSize == 4

ReplaceCanPush == Size < MaxReplaceSize

\* logic.new_signal(debug_name), each signal with a name of its own
ReplaceNewSignal ==
    /\ ReplaceCanPush
    /\ Building
    /\ Built(new_signal_named(logic, ToString(logic.next_signal_id)))
    /\ UNCHANGED builders
    /\ UNCHANGED grid_vars

\* count = logic.replace_signal(old, new); pre is the LogicList before the call
ReplaceSignal(old, new) ==
    /\ Building
    /\ LET r == replace_signal(logic, old, new)
       IN /\ logic' = r.logic
          /\ last' = [op |-> "replace_signal", raised |-> "ok", changed |-> r.count > 0,
                      old |-> old, new |-> new, count |-> r.count]
    /\ pre' = logic
    /\ UNCHANGED builders
    /\ UNCHANGED grid_vars

ReplacePushLut ==
    /\ ReplaceCanPush
    /\ \E output \in Sigs : \E inputs \in InputLists :
          PushLut(output, inputs, RawTable(inputs))
    /\ UNCHANGED grid_vars

ReplacePushFF ==
    /\ ReplaceCanPush
    /\ \E output, input \in Sigs : PushFF(output, input, FALSE)
    /\ UNCHANGED grid_vars

ReplaceMarkInput ==
    /\ ReplaceCanPush
    /\ \E a \in Sigs : MarkExternalInput(a)
    /\ UNCHANGED grid_vars

ReplaceMarkOutput ==
    /\ ReplaceCanPush
    /\ \E a \in Sigs : MarkExternalOutput(a)
    /\ UNCHANGED grid_vars

ReplaceAnySignal == \E old, new \in Sigs : ReplaceSignal(old, new)

NextReplace ==
    \/ ReplaceNewSignal
    \/ ReplacePushLut
    \/ ReplacePushFF
    \/ ReplaceMarkInput
    \/ ReplaceMarkOutput
    \/ ReplaceAnySignal

SpecReplace == Init /\ [][NextReplace]_vars

\* the signals a LogicList refers to: LUT and FF inputs and outputs and the
\* external markers
referred(L) ==
    UNION {{L.luts[i].output} \cup Range(L.luts[i].inputs) : i \in DOMAIN L.luts}
    \cup UNION {{L.ffs[i].output, L.ffs[i].input} : i \in DOMAIN L.ffs}
    \cup L.external_inputs \cup L.external_outputs

\* s when it is not `old`, and `new` in the place of `old`
moved(S, old, new) == (S \ {old}) \cup (IF old \in S THEN {new} ELSE {})

\* C29: after replace_signal(old, new) with old other than new nothing refers
\* to old (no LUT or FF input or output, no external marker), each reference
\* to old has become a reference to new and every other reference is as it
\* was, the debug names of new contain those old had, and old is not in
\* logic.signals; replace_signal(a, a) changes nothing and returns 0.
C29_ReplaceSignal ==
    last.op = "replace_signal" =>
        LET old == last.old
            new == last.new
        IN IF old = new THEN logic = pre /\ last.count = 0
           ELSE /\ old \notin referred(logic)
                /\ Len(logic.luts) = Len(pre.luts) /\ Len(logic.ffs) = Len(pre.ffs)
                /\ \A i \in DOMAIN pre.luts :
                      /\ {logic.luts[i].output} = moved({pre.luts[i].output}, old, new)
                      /\ Len(logic.luts[i].inputs) = Len(pre.luts[i].inputs)
                      /\ \A j \in DOMAIN pre.luts[i].inputs :
                            {logic.luts[i].inputs[j]} = moved({pre.luts[i].inputs[j]}, old, new)
                      /\ logic.luts[i].table = pre.luts[i].table
                /\ \A i \in DOMAIN pre.ffs :
                      /\ {logic.ffs[i].output} = moved({pre.ffs[i].output}, old, new)
                      /\ {logic.ffs[i].input} = moved({pre.ffs[i].input}, old, new)
                      /\ logic.ffs[i].init = pre.ffs[i].init
                /\ logic.external_inputs = moved(pre.external_inputs, old, new)
                /\ logic.external_outputs = moved(pre.external_outputs, old, new)
                /\ pre.debug_names[old + 1] \subseteq logic.debug_names[new + 1]
                /\ old \notin Range(logic.signals)

\* signal 0, the output and the input of a FF and an external output, was
\* replaced by signal 1
C29_Witness ==
    /\ last.op = "replace_signal"
    /\ last.old = 0 /\ last.new = 1
    /\ last.count = 3
    /\ pre.ffs = <<[output |-> 0, input |-> 0, init |-> FALSE]>>
    /\ pre.external_outputs = {0}
    /\ logic.ffs = <<[output |-> 1, input |-> 1, init |-> FALSE]>>
    /\ logic.external_outputs = {1}
    /\ logic.signals = <<1>>
    /\ logic.debug_names[2] = {"0", "1"}

----------------------------------------------------------------------------
(* the staged connections of a builder as an equivalence *)

\* the signals a staged pair joins to a signal of S in one step, with S
staged_step(conns, S) ==
    S \cup {s \in UNION {{conns[k][1], conns[k][2]} : k \in DOMAIN conns} :
               \E k \in DOMAIN conns : \E x \in S : conns[k] \in {<<x, s>>, <<s, x>>}}

\* the signals linked to a signal of S by a chain of staged pairs
RECURSIVE staged_closure(_, _)
staged_closure(conns, S) ==
    IF staged_step(conns, S) = S THEN S ELSE staged_closure(conns, staged_step(conns, S))

\* every reference of `before` to a signal of K is, at the same place of
\* `after`, a reference to r
unified(before, after, K, r) ==
    /\ \A i \in DOMAIN before.luts :
          /\ before.luts[i].output \in K => after.luts[i].output = r
          /\ \A j \in DOMAIN before.luts[i].inputs :
                before.luts[i].inputs[j] \in K => after.luts[i].inputs[j] = r
    /\ \A i \in DOMAIN before.ffs :
          /\ before.ffs[i].output \in K => after.ffs[i].output = r
          /\ before.ffs[i].input \in K => after.ffs[i].input = r
    /\ (before.external_inputs \cap K # {}) => (after.external_inputs \cap (K \cup {r}) = {r})
    /\ (before.external_outputs \cap K # {}) => (after.external_outputs \cap (K \cup {r}) = {r})

\* C30: after finish() the staged pairs act as an equivalence: for every
\* signal of a staged pair, all references to the signals linked to it by a
\* chain of staged pairs point to one and the same signal, and that signal is
\* in logic.signals.
C30_FinishUnifies ==
    last.op = "finish" =>
        \A k \in DOMAIN last.connections_to_make :
            LET K == staged_closure(last.connections_to_make,
                                    {last.connections_to_make[k][1]})
            IN \E r \in Range(logic.signals) : unified(pre, logic, K, r)

============================================================================
